---- MODULE Spec2Model ----
(***************************************************************************)
(* Transaction analytics dashboard (Dashboard.tsx): the normalizer, the    *)
(* filter engine and the deduplication / aggregation engine, as a state    *)
(* machine over the component's React state.                               *)
(*                                                                         *)
(* State of the component: rawData, fileName, timezone, filters and        *)
(* selectedCountryDetails (useState).  The useMemo stages (transactions,   *)
(* filteredTransactions, kpiData, chartData, countryDetailData) are pure   *)
(* functions of that state and are modelled as operators over it.          *)
(*                                                                         *)
(* Conventions                                                             *)
(*  - a raw row is a record of strings (Papa.parse with header: true and   *)
(*    no dynamicTyping; XLSX with raw: false, defval: ''); an absent       *)
(*    column is the empty string, which is falsy like undefined.           *)
(*    Pass-through columns that no aggregate reads (email, currency,       *)
(*    lastFourDigits, pspOrderId, bin, paymentMethod, type) are left out.  *)
(*  - an instant is [nan, v]: v is milliseconds since                      *)
(*    2024-01-01T00:00:00.000Z (the epoch is shifted so that values fit),  *)
(*    nan marks the NaN that moment yields for an unparseable date.        *)
(*  - a JavaScript number produced by a division is [kind, num, den]:      *)
(*    kind "num" is the exact rational num/den (den > 0), kind "NaN" is    *)
(*    the result of 0/0 and "Infinity" of x/0.  Arithmetic is exact;       *)
(*    IEEE rounding of doubles is outside the model.                       *)
(*  - the FileUpload component (FileUpload.tsx) has the state isProcessing *)
(*    and error ("" stands for null); task is the processFile run in       *)
(*    flight: its position, its file and the locals of processCSV /        *)
(*    processExcel.  A file is [name, big, n, fault, at]: its name, whether *)
(*    it exceeds 10MB, its number of data rows (row i is UploadRow(i)) and *)
(*    the failure it meets, if any.                                        *)
(*  - rendered is the last committed render of the Dashboard: the state it *)
(*    saw (its filters are the props of the FilterPanel) and, for every    *)
(*    useMemo stage, the inputs the stage read when it last ran, which     *)
(*    stand for its cached value; dirty names the array- or object-valued  *)
(*    state set since that render (a new identity whatever the content).   *)
(*    Spec, SpecTime, SpecFilter, SpecMethod and SpecUpload read the       *)
(*    stages as of a render that follows every state update at once and    *)
(*    leave both variables alone; SpecRender follows the renders.          *)
(***************************************************************************)
EXTENDS Integers, Sequences, FiniteSets, TLC

VARIABLES rawData, fileName, timezone, filters, selectedCountryDetails,
          isProcessing, error, task, rendered, dirty

vars == <<rawData, fileName, timezone, filters, selectedCountryDetails,
          isProcessing, error, task, rendered, dirty>>

\* the state of the FileUpload component and of its processFile run
uploadVars == <<isProcessing, error, task>>

\* the last committed render of the Dashboard and what was set since
renderVars == <<rendered, dirty>>

(***************************************************************************)
(* Bounds                                                                  *)
(***************************************************************************)
MaxRows == 3

\* the longest upload of the specification that follows the renders
MaxRenderRows == 2

\* the most copies of an approved row and of the declined row in the
\* uploads of the specification of the insight engine
MaxApproved == 2
MaxDeclined == 6

(***************************************************************************)
(* Generic helpers                                                         *)
(***************************************************************************)
Range(s) == {s[i] : i \in 1..Len(s)}

Includes(s, x) == \E i \in 1..Len(s) : s[i] = x

RECURSIVE SeqsUpTo(_, _)
SeqsUpTo(S, n) ==
  IF n = 0 THEN {<<>>}
  ELSE LET shorter == SeqsUpTo(S, n - 1)
       IN shorter \cup {Append(s, x) : s \in {t \in shorter : Len(t) = n - 1}, x \in S}

(***************************************************************************)
(* Time: moment / moment-timezone                                          *)
(***************************************************************************)
HOUR == 60 * 60 * 1000
DAY == 24 * HOUR

NaNInstant == [nan |-> TRUE, v |-> 0]
Instant(ms) == [nan |-> FALSE, v |-> ms]

\* moment.utc(string).valueOf(): an ISO 8601 string is read as UTC unless it
\* carries its own offset, which is then honoured; anything else is invalid.
MomentUtcValueOf(s) ==
  CASE s = "2024-01-01T17:00:00Z" -> Instant(17 * HOUR)
    [] s = "2024-01-01T19:00:00Z" -> Instant(19 * HOUR)
    [] s = "2024-01-02T09:00:00" -> Instant(DAY + 9 * HOUR)
    [] s = "2024-01-02T14:00:00Z" -> Instant(DAY + 14 * HOUR)
    [] s = "2024-01-02T20:00:00+06:00" -> Instant(DAY + 20 * HOUR - 6 * HOUR)
    [] s = "2024-01-02T19:30:00Z" -> Instant(DAY + 19 * HOUR + 30 * 60 * 1000)
    [] s = "2024-01-02T23:59:59.999Z" -> Instant(2 * DAY - 1)
    [] s = "2024-01-03T00:00:00+06:00" -> Instant(2 * DAY - 6 * HOUR)
    [] OTHER -> NaNInstant

\* moment.utc(string).toISOString(): the canonical UTC rendering, null when invalid
MomentUtcToISOString(s) ==
  CASE s = "2024-01-01T17:00:00Z" -> "2024-01-01T17:00:00.000Z"
    [] s = "2024-01-01T19:00:00Z" -> "2024-01-01T19:00:00.000Z"
    [] s = "2024-01-02T09:00:00" -> "2024-01-02T09:00:00.000Z"
    [] s = "2024-01-02T14:00:00Z" -> "2024-01-02T14:00:00.000Z"
    [] s = "2024-01-02T20:00:00+06:00" -> "2024-01-02T14:00:00.000Z"
    [] s = "2024-01-02T19:30:00Z" -> "2024-01-02T19:30:00.000Z"
    [] s = "2024-01-02T23:59:59.999Z" -> "2024-01-02T23:59:59.999Z"
    [] s = "2024-01-03T00:00:00+06:00" -> "2024-01-02T18:00:00.000Z"
    [] OTHER -> "null"

\* timezone === 'GMT+6' ? 'Asia/Dhaka' : 'UTC'
TzName(tz) == IF tz = "GMT+6" THEN "Asia/Dhaka" ELSE "UTC"

\* the UTC offset of the zone (Asia/Dhaka has no daylight saving time)
UtcOffset(zone) == IF zone = "Asia/Dhaka" THEN 6 * HOUR ELSE 0

DayNames == <<"2023-12-31", "2024-01-01", "2024-01-02", "2024-01-03", "2024-01-04">>
DayIndexes == (-1)..3
DateStr(d) == DayNames[d + 2]
DateIndex(s) == CHOOSE d \in DayIndexes : DateStr(d) = s

\* moment.tz(instant, zone).format('YYYY-MM-DD')
FormatLocalDate(inst, zone) ==
  IF inst.nan THEN "Invalid date" ELSE DateStr((inst.v + UtcOffset(zone)) \div DAY)

\* moment.tz(instant, zone).hour(); NaN for an invalid moment
LocalHour(inst, zone) ==
  IF inst.nan THEN [nan |-> TRUE, v |-> 0]
  ELSE [nan |-> FALSE, v |-> ((inst.v + UtcOffset(zone)) % DAY) \div HOUR]

\* moment.tz(instant, zone).format('YYYY-[W]WW'): calendar year and ISO week
\* (2023-12-31 is the Sunday of ISO week 52, 2024-01-01 the Monday of week 1)
FormatLocalWeek(inst, zone) ==
  LET date == FormatLocalDate(inst, zone)
  IN IF date = "Invalid date" THEN "Invalid date"
     ELSE IF date = "2023-12-31" THEN "2023-W52" ELSE "2024-W01"

\* moment.tz(instant, zone).format('YYYY-MM')
FormatLocalMonth(inst, zone) ==
  LET date == FormatLocalDate(inst, zone)
  IN IF date = "Invalid date" THEN "Invalid date"
     ELSE IF date = "2023-12-31" THEN "2023-12" ELSE "2024-01"

\* moment.tz('YYYY-MM-DD', zone).startOf('day').valueOf() and
\* moment.utc('YYYY-MM-DD').startOf('day').valueOf()
StartOfDay(dateStr, zone) == DateIndex(dateStr) * DAY - UtcOffset(zone)

\* ... .endOf('day').valueOf(): 23:59:59.999 of that local day
EndOfDay(dateStr, zone) == StartOfDay(dateStr, zone) + DAY - 1

\* JavaScript < and > on numbers: false whenever an operand is NaN
JsLess(inst, bound) == ~inst.nan /\ inst.v < bound
JsGreater(inst, bound) == ~inst.nan /\ inst.v > bound

(***************************************************************************)
(* Normalizer (transactions useMemo)                                       *)
(***************************************************************************)
\* parseFloat(row.amount) || 0 : NaN and 0 both become 0
ParseAmount(s) ==
  CASE s = "100" -> 100
    [] s = "50" -> 50
    [] s = "200" -> 200
    [] s = "120" -> 120
    [] s = "0" -> 0
    [] OTHER -> 0

\* Intl.DisplayNames(['en'], {type: 'region'}).of(code): the English region
\* name, or the code itself for a code without a name (fallback: 'code')
RegionName(code) ==
  CASE code = "DE" -> "Germany"
    [] code = "FR" -> "France"
    [] code = "BD" -> "Bangladesh"
    [] OTHER -> code

UpperCase(s) ==
  CASE s = "de" -> "DE"
    [] s = "fr" -> "FR"
    [] OTHER -> s

\* v.length === 2 && /^[A-Za-z]{2}$/.test(v)
IsTwoLetters(s) == s \in {"DE", "FR", "BD", "de", "fr", "XQ"}

\* the title-casing replace() of line 87
TitleCase(s) ==
  CASE s = "germany" -> "Germany"
    [] s = "GERMANY" -> "Germany"
    [] s = "france" -> "France"
    [] OTHER -> s

toFullCountryName(value) ==
  IF value = "" THEN ""
  ELSE IF IsTwoLetters(value) /\ RegionName(UpperCase(value)) # ""
       THEN RegionName(UpperCase(value))
       ELSE TitleCase(value)

\* `tx_${index}` with the 0-based index of rawData.map
SyntheticId(index) == "tx_" \o ToString(index)

\* a || b on strings
Or(a, b) == IF a # "" THEN a ELSE b

\* a normalizer that moves the instant into the selected zone
NormalizeRowShiftingInstant(row, index, tz) ==
  LET parsed == MomentUtcValueOf(row.processing_date)
      processingTs == IF parsed.nan THEN parsed ELSE Instant(parsed.v + UtcOffset(TzName(tz)))
      convertedDate == MomentUtcToISOString(row.processing_date)
      localDate == FormatLocalDate(processingTs, "UTC")
  IN [ id |-> Or(row.id, SyntheticId(index)),
       processing_date |-> convertedDate,
       processing_ts |-> processingTs,
       local_date |-> localDate,
       pspName |-> row.pspName,
       country |-> row.country,
       country_full |-> toFullCountryName(row.country),
       amount |-> ParseAmount(row.amount),
       status |-> row.status,
       cardType |-> row.cardType,
       declineReason |-> row.declineReason,
       midAlias |-> row.midAlias,
       transactionId |-> row.transactionId,
       merchantOrderId |-> Or(row.merchantOrderId, Or(row.id, SyntheticId(index))) ]

NormalizeRow(row, index, tz) ==
  LET processingTs == MomentUtcValueOf(row.processing_date)
      convertedDate == MomentUtcToISOString(row.processing_date)
      localDate == FormatLocalDate(processingTs, TzName(tz))
  IN [ id |-> Or(row.id, SyntheticId(index)),
       processing_date |-> convertedDate,
       processing_ts |-> processingTs,
       local_date |-> localDate,
       pspName |-> row.pspName,
       country |-> row.country,
       country_full |-> toFullCountryName(row.country),
       amount |-> ParseAmount(row.amount),
       status |-> row.status,
       cardType |-> row.cardType,
       declineReason |-> row.declineReason,
       midAlias |-> row.midAlias,
       transactionId |-> row.transactionId,
       merchantOrderId |-> Or(row.merchantOrderId, Or(row.id, SyntheticId(index))) ]

Normalize(raw, tz) == [i \in 1..Len(raw) |-> NormalizeRow(raw[i], i - 1, tz)]

transactions == Normalize(rawData, timezone)

(***************************************************************************)
(* Filter engine (filteredTransactions useMemo)                            *)
(***************************************************************************)
LowerCase(s) ==
  CASE s = "Confirmo" -> "confirmo"
    [] s = "CONFIRMO" -> "confirmo"
    [] s = "PayPal" -> "paypal"
    [] s = "PAYPAL" -> "paypal"
    [] s = "Stripe" -> "stripe"
    [] OTHER -> s

\* a mapping that compares the name as written
pspToMethodCaseSensitive(psp) ==
  IF psp = "confirmo" THEN "Crypto"
  ELSE IF psp = "paypal" THEN "P2P"
  ELSE "Card"

pspToMethod(psp) ==
  LET name == LowerCase(psp)
  IN IF name = "confirmo" THEN "Crypto"
     ELSE IF name = "paypal" THEN "P2P"
     ELSE "Card"

\* the date-range part of the filter callback (lines 184-188)
PassesDateRange(tx, f, tz) ==
  LET zone == TzName(tz)
      ts == tx.processing_ts
  IN IF f.dateRange.start # "" \/ f.dateRange.end # ""
     THEN /\ ~(f.dateRange.start # "" /\ JsLess(ts, StartOfDay(f.dateRange.start, zone)))
          /\ ~(f.dateRange.end # "" /\ JsGreater(ts, EndOfDay(f.dateRange.end, zone)))
     ELSE TRUE

\* a set-valued filter: null (no constraint) when the array is empty
InSet(arr, x) == Len(arr) = 0 \/ Includes(arr, x)

\* a filter callback that keeps a row as soon as one active set holds its value
PassesAnyFilter(tx, f, tz) ==
  /\ PassesDateRange(tx, f, tz)
  /\ \/ /\ Len(f.psp) = 0 /\ Len(f.country) = 0 /\ Len(f.status) = 0
        /\ Len(f.cardType) = 0 /\ Len(f.midAlias) = 0 /\ Len(f.method) = 0
     \/ Includes(f.psp, tx.pspName)
     \/ Includes(f.country, tx.country_full)
     \/ Includes(f.status, tx.status)
     \/ Includes(f.cardType, tx.cardType)
     \/ Includes(f.midAlias, tx.midAlias)
     \/ Includes(f.method, pspToMethod(tx.pspName))

PassesFilters(tx, f, tz) ==
  /\ PassesDateRange(tx, f, tz)
  /\ InSet(f.psp, tx.pspName)
  /\ InSet(f.country, tx.country_full)
  /\ InSet(f.status, tx.status)
  /\ InSet(f.cardType, tx.cardType)
  /\ InSet(f.midAlias, tx.midAlias)
  /\ InSet(f.method, pspToMethod(tx.pspName))

ApplyFilters(txs, f, tz) == SelectSeq(txs, LAMBDA tx : PassesFilters(tx, f, tz))

filteredTransactions == ApplyFilters(transactions, filters, timezone)

\* availableOptions: unique(...) drops empty values
AvailablePsps(txs) == {txs[i].pspName : i \in 1..Len(txs)} \ {""}
AvailableCountries(txs) == {txs[i].country_full : i \in 1..Len(txs)} \ {""}
AvailableStatuses(txs) == {txs[i].status : i \in 1..Len(txs)} \ {""}
AvailableMidAliases(txs) == {txs[i].midAlias : i \in 1..Len(txs)} \ {""}
AvailableCardTypes(txs) == {txs[i].cardType : i \in 1..Len(txs)} \ {""}

(***************************************************************************)
(* JavaScript numbers produced by a division                               *)
(***************************************************************************)
Num(n) == [kind |-> "num", num |-> n, den |-> 1]

\* a / b for non-negative integers a, b
JsDiv(a, b) ==
  IF b = 0 THEN (IF a = 0 THEN [kind |-> "NaN", num |-> 0, den |-> 1]
                 ELSE [kind |-> "Infinity", num |-> 0, den |-> 1])
  ELSE [kind |-> "num", num |-> a, den |-> b]

\* x * n
JsTimes(x, n) == IF x.kind = "num" THEN [x EXCEPT !.num = x.num * n] ELSE x

(***************************************************************************)
(* Deduplication by merchant order (kpiData useMemo)                       *)
(***************************************************************************)
\* tx.merchantOrderId || tx.transactionId || tx.id
MoidKey(tx) == Or(tx.merchantOrderId, Or(tx.transactionId, tx.id))

MoidKeys(txs) == {MoidKey(txs[i]) : i \in 1..Len(txs)}

\* the reduce() that builds the groups: rows of one key, in input order
MoidGroup(txs, key) == SelectSeq(txs, LAMBDA tx : MoidKey(tx) = key)

IsApproved(tx) == tx.status = "approved"
IsDeclined(tx) == tx.status = "declined"

\* group.some(t => t.status === 'approved') and ... === 'declined'
SomeApproved(rows) == \E i \in 1..Len(rows) : IsApproved(rows[i])
SomeDeclined(rows) == \E i \in 1..Len(rows) : IsDeclined(rows[i])

\* a find() that keeps the last approved row instead of the first
LastApproved(rows) ==
  rows[CHOOSE i \in 1..Len(rows) : IsApproved(rows[i]) /\ \A j \in (i + 1)..Len(rows) : ~IsApproved(rows[j])]

\* group.find(t => t.status === 'approved')
FirstApproved(rows) ==
  rows[CHOOSE i \in 1..Len(rows) : IsApproved(rows[i]) /\ \A j \in 1..(i - 1) : ~IsApproved(rows[j])]

RECURSIVE SumOver(_, _)
SumOver(S, f) ==
  IF S = {} THEN 0
  ELSE LET x == CHOOSE y \in S : TRUE IN f[x] + SumOver(S \ {x}, f)

\* the forEach over Object.values(moidGroups), lines 254-268
ApprovedGroupKeys(txs) == {k \in MoidKeys(txs) : SomeApproved(MoidGroup(txs, k))}

\* the declined branch taken without the else: any group with a declined row
DeclinedGroupKeysNoOverride(txs) == {k \in MoidKeys(txs) : SomeDeclined(MoidGroup(txs, k))}

DeclinedGroupKeys(txs) ==
  {k \in MoidKeys(txs) : ~SomeApproved(MoidGroup(txs, k)) /\ SomeDeclined(MoidGroup(txs, k))}

\* approvedTransactions: the first approved row of every approved group
ApprovedTransactionOf(txs) == [k \in ApprovedGroupKeys(txs) |-> FirstApproved(MoidGroup(txs, k))]

\* the rate computed without the guard on the denominator
KpiApprovalRateUnguarded(approvedLength, totalRelevantTransactions) ==
  JsTimes(JsDiv(approvedLength, totalRelevantTransactions), 100)

\* approvalRate, lines 278-280
KpiApprovalRate(approvedLength, totalRelevantTransactions) ==
  IF totalRelevantTransactions > 0
  THEN JsTimes(JsDiv(approvedLength, totalRelevantTransactions), 100)
  ELSE Num(0)

KpiData(txs) ==
  LET approvedOverall == Cardinality(ApprovedGroupKeys(txs))
      declinedOverall == Cardinality(DeclinedGroupKeys(txs))
      approvedTransactions == ApprovedTransactionOf(txs)
      approvedLength == Cardinality(DOMAIN approvedTransactions)
      totalRelevantTransactions == approvedOverall + declinedOverall
      totalAmount == SumOver(DOMAIN approvedTransactions,
                             [k \in DOMAIN approvedTransactions |-> approvedTransactions[k].amount])
  IN [ approvedOverall |-> approvedOverall,
       declinedOverall |-> declinedOverall,
       totalTransactions |-> approvedOverall,
       approvalRate |-> KpiApprovalRate(approvedLength, totalRelevantTransactions),
       totalAmount |-> totalAmount ]

kpiData == KpiData(filteredTransactions)

\* avgAmount and avgAmountLabel, lines 282-313: the approved transactions
\* (first approved row of every approved group) grouped by local date, and
\* by local hour when there is one date; a Set holds NaN once
KpiAvgAmount(txs, tz) ==
  LET zone == TzName(tz)
      approvedTransactions == ApprovedTransactionOf(txs)
      keys == DOMAIN approvedTransactions
      totalAmount == SumOver(keys, [k \in keys |-> approvedTransactions[k].amount])
      dateGroups == {FormatLocalDate(approvedTransactions[k].processing_ts, zone) : k \in keys}
      activeDays == Cardinality(dateGroups)
      hourSet == {LocalHour(approvedTransactions[k].processing_ts, zone) : k \in keys}
      activeHours == Cardinality(hourSet)
  IN IF activeDays = 1
     THEN [ avgAmount |-> IF activeHours > 0 THEN JsDiv(totalAmount, activeHours) ELSE Num(0),
            avgAmountLabel |-> "per hour" ]
     ELSE [ avgAmount |-> IF activeDays > 0 THEN JsDiv(totalAmount, activeDays) ELSE Num(0),
            avgAmountLabel |-> "per day" ]

kpiAvgAmount == KpiAvgAmount(filteredTransactions, timezone)

(***************************************************************************)
(* Rollups per PSP, MID alias and country (chartData useMemo)              *)
(***************************************************************************)
\* the three dimensions, by the field of the transaction that carries them
Dimensions == {"pspName", "midAlias", "country_full"}

\* the dimension values met in the groups, .filter(Boolean) applied
DimValues(txs, dim) == {txs[i][dim] : i \in 1..Len(txs)} \ {""}

\* rows.filter(r => dimension(r) === val) inside one merchant-order group
DimSubset(txs, key, dim, val) == SelectSeq(MoidGroup(txs, key), LAMBDA r : r[dim] = val)

\* handleSubset over every group that holds the value: the approved branch
SubsetApprovedKeys(txs, dim, val) ==
  {k \in MoidKeys(txs) : SomeApproved(DimSubset(txs, k, dim, val))}

\* handleSubset: the declined branch (else if hasDeclined)
SubsetDeclinedKeys(txs, dim, val) ==
  {k \in MoidKeys(txs) : /\ ~SomeApproved(DimSubset(txs, k, dim, val))
                         /\ SomeDeclined(DimSubset(txs, k, dim, val))}

\* pspAgg / midAgg / countryAgg after the pass over the groups
DimAgg(txs, dim) ==
  [val \in DimValues(txs, dim) |->
     LET approvedKeys == SubsetApprovedKeys(txs, dim, val)
     IN [ approvedCount |-> Cardinality(approvedKeys),
          declinedCount |-> Cardinality(SubsetDeclinedKeys(txs, dim, val)),
          approvedAmount |-> SumOver(approvedKeys,
                               [k \in approvedKeys |-> FirstApproved(DimSubset(txs, k, dim, val)).amount]) ]]

RollupRate(g) ==
  IF g.approvedCount + g.declinedCount > 0
  THEN JsTimes(JsDiv(g.approvedCount, g.approvedCount + g.declinedCount), 100)
  ELSE Num(0)

\* pspStats: keyed by psp; the filter keeps approved > 0 || declined > 0,
\* where `approved` is the approved amount
PspPerformance(txs) ==
  LET pspAgg == DimAgg(txs, "pspName")
      kept == {psp \in DOMAIN pspAgg : pspAgg[psp].approvedAmount > 0 \/ pspAgg[psp].declinedCount > 0}
  IN [psp \in kept |->
        [ approved |-> pspAgg[psp].approvedAmount,
          approvedCount |-> pspAgg[psp].approvedCount,
          declined |-> pspAgg[psp].declinedCount,
          approvedAmount |-> pspAgg[psp].approvedAmount,
          declinedAmount |-> 0,
          approvalRate |-> RollupRate(pspAgg[psp]) ]]

\* midAliasStats: the filter keeps approvedCount + declinedCount > 0
MidAliasPerformance(txs) ==
  LET midAgg == DimAgg(txs, "midAlias")
      kept == {m \in DOMAIN midAgg : midAgg[m].approvedCount + midAgg[m].declinedCount > 0}
  IN [m \in kept |->
        [ approvedCount |-> midAgg[m].approvedCount,
          declinedCount |-> midAgg[m].declinedCount,
          approvedAmount |-> midAgg[m].approvedAmount,
          approvalRate |-> RollupRate(midAgg[m]) ]]

\* countryStats: count is approvedTxs, incremented together with approvedCount
CountryDistribution(txs) ==
  LET countryAgg == DimAgg(txs, "country_full")
      kept == {c \in DOMAIN countryAgg : countryAgg[c].approvedCount > 0 \/ countryAgg[c].declinedCount > 0}
  IN [c \in kept |->
        [ count |-> countryAgg[c].approvedCount,
          amount |-> countryAgg[c].approvedAmount,
          approvedCount |-> countryAgg[c].approvedCount,
          declinedCount |-> countryAgg[c].declinedCount,
          approvalRate |-> RollupRate(countryAgg[c]) ]]

\* a pass that counts rows instead of merchant orders
StatusCountsByRow(txs) ==
  [ approved |-> Len(SelectSeq(txs, IsApproved)),
    declined |-> Len(SelectSeq(txs, IsDeclined)) ]

\* approvedCountOverall / declinedCountOverall: a second pass over byMoid
StatusCounts(txs) ==
  [ approved |-> Cardinality({k \in MoidKeys(txs) : SomeApproved(MoidGroup(txs, k))}),
    declined |-> Cardinality({k \in MoidKeys(txs) : /\ ~SomeApproved(MoidGroup(txs, k))
                                                    /\ SomeDeclined(MoidGroup(txs, k))}) ]

\* statusStats
StatusBreakdown(txs) ==
  LET approvedCountOverall == StatusCounts(txs).approved
      declinedCountOverall == StatusCounts(txs).declined
      totalForPie == approvedCountOverall + declinedCountOverall
  IN << [ status |-> "approved",
          count |-> approvedCountOverall,
          amount |-> 0,
          percentage |-> IF totalForPie > 0
                         THEN JsTimes(JsDiv(approvedCountOverall, totalForPie), 100) ELSE Num(0) ],
        [ status |-> "declined",
          count |-> declinedCountOverall,
          amount |-> 0,
          percentage |-> IF totalForPie > 0
                         THEN JsTimes(JsDiv(declinedCountOverall, totalForPie), 100) ELSE Num(0) ] >>

(***************************************************************************)
(* Time-bucket rollups (chartData useMemo, lines 410-483)                  *)
(***************************************************************************)
\* the indexes of Array.from({ length: 24 })
HourBuckets == 0..23

\* approved / amount of the rows of txs at the given indexes
BucketOf(txs, indexes) ==
  LET approved == {i \in indexes : IsApproved(txs[i])}
  IN [ transactions |-> Cardinality(approved),
       amount |-> SumOver(approved, [i \in approved |-> txs[i].amount]) ]

\* the hourly loop: timelineBuckets[hour] is undefined when hour is NaN and
\* b.transactions += 1 then throws a TypeError out of the useMemo
TimelineThrows(txs, tz) ==
  \E i \in 1..Len(txs) : IsApproved(txs[i]) /\ LocalHour(txs[i].processing_ts, TzName(tz)).nan

\* timelineStats when the loop completes
TimelineStats(txs, tz) ==
  [hour \in HourBuckets |->
     BucketOf(txs, {i \in 1..Len(txs) :
                      LET h == LocalHour(txs[i].processing_ts, TzName(tz))
                      IN ~h.nan /\ h.v = hour})]

\* dailyTimelineStats: every filtered row is grouped by tx.local_date (never
\* empty, so the || fallback is not taken), approved rows counted per group
DailyTimelineStats(txs) ==
  [date \in {txs[i].local_date : i \in 1..Len(txs)} |->
     BucketOf(txs, {i \in 1..Len(txs) : txs[i].local_date = date})]

\* weeklyTimelineStats
WeeklyTimelineStats(txs, tz) ==
  [week \in {FormatLocalWeek(txs[i].processing_ts, TzName(tz)) : i \in 1..Len(txs)} |->
     BucketOf(txs, {i \in 1..Len(txs) : FormatLocalWeek(txs[i].processing_ts, TzName(tz)) = week})]

\* monthlyTimelineStats
MonthlyTimelineStats(txs, tz) ==
  [month \in {FormatLocalMonth(txs[i].processing_ts, TzName(tz)) : i \in 1..Len(txs)} |->
     BucketOf(txs, {i \in 1..Len(txs) : FormatLocalMonth(txs[i].processing_ts, TzName(tz)) = month})]

\* the chartData useMemo as a whole: no value when the hourly loop throws
chartDataThrows == TimelineThrows(filteredTransactions, timezone)

timelineData == TimelineStats(filteredTransactions, timezone)
dailyTimelineData == DailyTimelineStats(filteredTransactions)
weeklyTimelineData == WeeklyTimelineStats(filteredTransactions, timezone)
monthlyTimelineData == MonthlyTimelineStats(filteredTransactions, timezone)

pspPerformance == PspPerformance(filteredTransactions)
midAliasPerformance == MidAliasPerformance(filteredTransactions)
countryDistribution == CountryDistribution(filteredTransactions)
statusBreakdown == StatusBreakdown(filteredTransactions)

(***************************************************************************)
(* Country detail (countryDetailData useMemo)                              *)
(***************************************************************************)
SumAmounts(rows) == SumOver(1..Len(rows), [i \in 1..Len(rows) |-> rows[i].amount])

\* approved / declined row counts, amount and rate of a list of rows: the
\* .filter(status === ...) / .length / .reduce arithmetic used three times
RowStats(rows) ==
  LET approved == SelectSeq(rows, IsApproved)
      declined == SelectSeq(rows, IsDeclined)
      approvedDeclinedCount == Len(approved) + Len(declined)
  IN [ transactions |-> Len(approved),
       approved |-> Len(approved),
       declined |-> Len(declined),
       totalAmount |-> SumAmounts(approved),
       approvalRate |-> IF approvedDeclinedCount > 0
                        THEN JsTimes(JsDiv(Len(approved), approvedDeclinedCount), 100)
                        ELSE Num(0) ]

\* countryDetailData for a selected country (null when nothing is selected,
\* which the callers test on selectedCountryDetails)
CountryDetailData(txs, allTxs, selected, tz) ==
  LET countryTxs == SelectSeq(txs, LAMBDA tx : tx.country_full = selected)
      pspRows(psp) == SelectSeq(countryTxs, LAMBDA tx : tx.pspName = psp)
      pspKept == {psp \in AvailablePsps(allTxs) : RowStats(pspRows(psp)).transactions > 0}
      dates == {FormatLocalDate(countryTxs[i].processing_ts, TzName(tz)) : i \in 1..Len(countryTxs)}
      dayRows(date) ==
        SelectSeq(countryTxs, LAMBDA tx : FormatLocalDate(tx.processing_ts, TzName(tz)) = date)
      total == RowStats(countryTxs)
  IN [ country |-> selected,
       totalTransactions |-> total.approved,
       approvedTransactions |-> total.approved,
       declinedTransactions |-> total.declined,  \* declinedCountryTxs.length, a local of the memo
       totalAmount |-> total.totalAmount,
       approvalRate |-> total.approvalRate,
       pspBreakdown |-> [psp \in pspKept |-> RowStats(pspRows(psp))],
       dailyBreakdown |-> [date \in dates |-> RowStats(dayRows(date))] ]

countryDetailData ==
  CountryDetailData(filteredTransactions, transactions, selectedCountryDetails, timezone)

(***************************************************************************)
(* Insight engine (SmartInsights.tsx, insights useMemo)                    *)
(***************************************************************************)
\* x < n and x > n for a JavaScript number x and an integer n: false on NaN
JsNumLess(x, n) == x.kind = "num" /\ x.num < n * x.den
JsNumGreater(x, n) == x.kind = "Infinity" \/ (x.kind = "num" /\ x.num > n * x.den)

\* rule 1: the approval rate over the raw approved and declined rows
InsightApprovalRate(txs) ==
  LET approvedTxs == SelectSeq(txs, IsApproved)
      declinedTxs == SelectSeq(txs, IsDeclined)
  IN IF Len(txs) > 0
     THEN JsTimes(JsDiv(Len(approvedTxs), Len(approvedTxs) + Len(declinedTxs)), 100)
     ELSE Num(0)

\* rule 1: the insights it pushes (none or one)
ApprovalRateInsights(txs) ==
  LET approvalRate == InsightApprovalRate(txs)
  IN IF JsNumLess(approvalRate, 70)
     THEN << [id |-> "low-approval-rate", type |-> "danger", priority |-> "high"] >>
     ELSE IF JsNumGreater(approvalRate, 85)
          THEN << [id |-> "high-approval-rate", type |-> "success", priority |-> "low"] >>
          ELSE << >>

\* rule 4: Object.keys(countryStats), the approved rows keyed by tx.country
InsightCountryKeys(txs) == {txs[i].country : i \in {j \in 1..Len(txs) : IsApproved(txs[j])}}

\* rule 4: the insights it pushes (none or one)
TopCountryInsights(txs) ==
  IF InsightCountryKeys(txs) # {} /\ Cardinality(InsightCountryKeys(txs)) > 1
  THEN << [id |-> "top-country", type |-> "info", priority |-> "medium"] >>
  ELSE << >>

\* rows that are approved or declined
IsSettled(tx) == IsApproved(tx) \/ IsDeclined(tx)

\* rule 2: pspStats[psp].total, the approved and declined rows of a PSP
InsightPspTotal(txs, psp) ==
  Cardinality({i \in 1..Len(txs) : IsSettled(txs[i]) /\ txs[i].pspName = psp})

\* rule 2: bestPSP exists when a PSP has at least 5 such rows
BestPspInsights(txs) ==
  IF \E i \in 1..Len(txs) : IsSettled(txs[i]) /\ InsightPspTotal(txs, txs[i].pspName) >= 5
  THEN << [id |-> "best-psp", type |-> "success", priority |-> "medium"] >>
  ELSE << >>

\* the zones the browser may run in: moment(...) without a zone reads the
\* instant in the local zone of the browser, whatever the selected timezone
BrowserZones == {"UTC", "Asia/Dhaka"}

\* the indexes of the approved rows
ApprovedIndexes(txs) == {i \in 1..Len(txs) : IsApproved(txs[i])}

\* rule 3: Object.keys(hourlyStats), moment(tx.processing_date).hour() of
\* the approved rows (NaN for an invalid date)
InsightHours(txs, zone) == {LocalHour(txs[i].processing_ts, zone) : i \in ApprovedIndexes(txs)}

\* rule 3: hourlyStats[hour].amount
InsightHourAmount(txs, zone, hour) ==
  LET rows == {i \in ApprovedIndexes(txs) : LocalHour(txs[i].processing_ts, zone) = hour}
  IN SumOver(rows, [i \in rows |-> txs[i].amount])

\* rule 3: peakHour, the first entry after the stable sort by amount,
\* descending; Object.entries lists the integer keys in ascending order
\* and the key 'NaN' after them
PeakHour(txs, zone) ==
  LET hours == InsightHours(txs, zone)
      top == {h \in hours : \A g \in hours :
                InsightHourAmount(txs, zone, g) <= InsightHourAmount(txs, zone, h)}
      valid == {h \in top : ~h.nan}
  IN IF valid = {} THEN [nan |-> TRUE, v |-> 0]
     ELSE CHOOSE h \in valid : \A g \in valid : h.v <= g.v

\* rule 3: the insights it pushes (none or one)
PeakHourInsights(txs, zone) ==
  IF InsightHours(txs, zone) # {}
  THEN << [id |-> "peak-hour", type |-> "info", priority |-> "medium"] >>
  ELSE << >>

\* rule 5: a decline reason (tx.declineReason || 'Unknown') of more than 5
\* declined rows
TopDeclineReasonInsights(txs) ==
  IF \E i \in 1..Len(txs) :
       /\ IsDeclined(txs[i])
       /\ Cardinality({j \in 1..Len(txs) :
                         /\ IsDeclined(txs[j])
                         /\ Or(txs[j].declineReason, "Unknown") = Or(txs[i].declineReason, "Unknown")}) > 5
  THEN << [id |-> "top-decline-reason", type |-> "warning", priority |-> "high"] >>
  ELSE << >>

\* rule 6: Object.keys(dailyRevenue), moment(tx.processing_date).format('YYYY-MM-DD')
\* of the approved rows
InsightDates(txs, zone) ==
  {FormatLocalDate(txs[i].processing_ts, zone) : i \in ApprovedIndexes(txs)}

\* rule 6: dailyRevenue[date]
DailyRevenue(txs, zone, date) ==
  LET rows == {i \in ApprovedIndexes(txs) : FormatLocalDate(txs[i].processing_ts, zone) = date}
  IN SumOver(rows, [i \in rows |-> txs[i].amount])

\* the place of a key in Object.keys(dailyRevenue).sort(): dates in calendar
\* order, 'Invalid date' after every date
DateRank(date) == IF date = "Invalid date" THEN Len(DayNames) ELSE DateIndex(date)

\* the greatest date of a non-empty set of keys
LastDate(dates) == CHOOSE d \in dates : \A e \in dates : DateRank(e) <= DateRank(d)

\* rule 6: ((recentRevenue - previousRevenue) / previousRevenue) * 100
Growth(recentRevenue, previousRevenue) ==
  IF previousRevenue = 0
  THEN (IF recentRevenue = 0 THEN [kind |-> "NaN", num |-> 0, den |-> 1]
        ELSE [kind |-> "Infinity", num |-> 0, den |-> 1])
  ELSE [kind |-> "num", num |-> (recentRevenue - previousRevenue) * 100, den |-> previousRevenue]

\* Math.abs(x) > n
AbsGreater(x, n) ==
  \/ x.kind = "Infinity"
  \/ x.kind = "num" /\ (x.num > n * x.den \/ -x.num > n * x.den)

\* rule 6: growth over the two last dates; defined when there are two dates
RevenueGrowth(txs, zone) ==
  LET dates == InsightDates(txs, zone)
      recent == LastDate(dates)
      previous == LastDate(dates \ {recent})
  IN Growth(DailyRevenue(txs, zone, recent), DailyRevenue(txs, zone, previous))

\* rule 6: the insights it pushes (none or one)
RevenueTrendInsights(txs, zone) ==
  IF Cardinality(InsightDates(txs, zone)) >= 2 /\ AbsGreater(RevenueGrowth(txs, zone), 10)
  THEN << [ id |-> "revenue-trend",
            type |-> IF JsNumGreater(RevenueGrowth(txs, zone), 0) THEN "success" ELSE "warning",
            priority |-> IF AbsGreater(RevenueGrowth(txs, zone), 25) THEN "high" ELSE "medium" ] >>
  ELSE << >>

\* rule 7: avgTxValue = totalAmount / approvedTxs.length, NaN without approved rows
HighValueInsights(txs) ==
  LET approvedTxs == SelectSeq(txs, IsApproved)
  IN IF JsNumGreater(JsDiv(SumAmounts(approvedTxs), Len(approvedTxs)), 100)
     THEN << [id |-> "high-value-transactions", type |-> "success", priority |-> "low"] >>
     ELSE << >>

\* a sort that puts the low priorities first
SortByPriorityAscending(list) ==
  SelectSeq(list, LAMBDA x : x.priority = "low")
    \o SelectSeq(list, LAMBDA x : x.priority = "medium")
    \o SelectSeq(list, LAMBDA x : x.priority = "high")

\* insights.sort by priorityOrder, descending; Array.prototype.sort is stable
SortByPriority(list) ==
  SelectSeq(list, LAMBDA x : x.priority = "high")
    \o SelectSeq(list, LAMBDA x : x.priority = "medium")
    \o SelectSeq(list, LAMBDA x : x.priority = "low")

\* the insights in the order the rules push them
PushedInsights(txs, zone) ==
  ApprovalRateInsights(txs) \o BestPspInsights(txs) \o PeakHourInsights(txs, zone)
    \o TopCountryInsights(txs) \o TopDeclineReasonInsights(txs)
    \o RevenueTrendInsights(txs, zone) \o HighValueInsights(txs)

\* the insights useMemo of SmartInsights, in a browser of the given zone
Insights(txs, zone) == SortByPriority(PushedInsights(txs, zone))

\* the Dashboard mounts SmartInsights (in the insights view) once rows are uploaded
InsightsMounted == rawData # << >>

(***************************************************************************)
(* Country heatmap (InteractiveCharts, heatmapModel useMemo)               *)
(***************************************************************************)
\* bucketOf(tx.local_date || tx.processing_date) is '' for a date that
\* new Date() cannot read, and the row is then skipped
HasHeatmapBucket(tx) == Or(tx.local_date, tx.processing_date) \notin {"", "Invalid date", "null"}

\* Object.keys(byCountryBucket): the rows of the heatmap, tx.country || 'Unknown'
\* (rankedCountries keeps the first countryTopN = 10 of them, which is all
\* of them for the lists considered here)
HeatmapCountries(txs) ==
  {Or(txs[i].country, "Unknown") : i \in {j \in 1..Len(txs) : HasHeatmapBucket(txs[j])}}

(***************************************************************************)
(* State machine: the Dashboard component                                  *)
(***************************************************************************)
Timezones == {"GMT+0", "GMT+6"}

\* the initial FilterState of useState (Dashboard.tsx) and of clearAllFilters
EmptyFilters ==
  [ dateRange |-> [start |-> "", end |-> ""],
    psp |-> <<>>, country |-> <<>>, status |-> <<>>, cardType |-> <<>>,
    midAlias |-> <<>>, type |-> <<>>, method |-> <<>> ]

\* the file of a run that has not started
NoFile == [name |-> "", big |-> FALSE, n |-> 0, fault |-> "none", at |-> 0]

\* no processFile run yet
IdleTask ==
  [ pc |-> "idle", file |-> NoFile, rows |-> <<>>, batch |-> <<>>, rowCount |-> 0,
    chunk |-> 0, calls |-> 0, prevData |-> <<>>, prevName |-> "" ]

\* the render at mount: every stage has run on the initial state
FirstRender ==
  LET txIn == [rawData |-> <<>>, timezone |-> "GMT+0"]
      ftIn == [transactions |-> txIn, filters |-> EmptyFilters, timezone |-> "GMT+0"]
  IN [ timezone |-> "GMT+0", filters |-> EmptyFilters, selectedCountryDetails |-> "",
       transactions |-> txIn,
       filteredTransactions |-> ftIn,
       kpiData |-> [filteredTransactions |-> ftIn, timezone |-> "GMT+0"],
       chartData |-> [filteredTransactions |-> ftIn, timezone |-> "GMT+0"],
       countryDetailData |-> [ selectedCountryDetails |-> "", filteredTransactions |-> ftIn,
                               psps |-> txIn, timezone |-> "GMT+0" ] ]

\* selectedCountryDetails and error: "" stands for null
Init ==
  /\ rawData = <<>>
  /\ fileName = ""
  /\ timezone = "GMT+0"
  /\ filters = EmptyFilters
  /\ selectedCountryDetails = ""
  /\ isProcessing = FALSE
  /\ error = ""
  /\ task = IdleTask
  /\ rendered = FirstRender
  /\ dirty = {}

\* FileUpload hands the parsed rows over: setRawData(data), setFileName(name)
handleDataLoaded(data, name) ==
  /\ rawData' = data
  /\ fileName' = name
  /\ UNCHANGED <<timezone, filters, selectedCountryDetails>>

\* an upload that delivers `data`, seen from the Dashboard alone
dataLoaded(data) ==
  /\ handleDataLoaded(data, "transactions.csv")
  /\ UNCHANGED uploadVars
  /\ UNCHANGED renderVars

\* TimezoneSelector buttons: startTransition(() => setTimezone(tz))
setTimezoneDeferred(tz) ==
  /\ timezone' = tz
  /\ UNCHANGED <<rawData, fileName, filters, selectedCountryDetails>>
  /\ UNCHANGED uploadVars
  /\ UNCHANGED renderVars

\* FilterPanel -> onFiltersChange: startTransition(() => setFilters(next))
setFiltersDeferred(next) ==
  /\ filters' = next
  /\ UNCHANGED <<rawData, fileName, timezone, selectedCountryDetails>>
  /\ UNCHANGED uploadVars
  /\ UNCHANGED renderVars

\* availableOptions over a transaction list, by filter key; the method
\* Select has fixed items
OptionsOf(txs, key) ==
  CASE key = "psp" -> AvailablePsps(txs)
    [] key = "country" -> AvailableCountries(txs)
    [] key = "status" -> AvailableStatuses(txs)
    [] key = "midAlias" -> AvailableMidAliases(txs)
    [] key = "cardType" -> AvailableCardTypes(txs)
    [] key = "method" -> {"Card", "Crypto", "P2P"}
    [] OTHER -> {}

\* the options a Select of the FilterPanel offers for a set-valued filter
AvailableOptions(key) == OptionsOf(transactions, key)

updateFilter(key, value) == setFiltersDeferred([filters EXCEPT ![key] = value])

\* addToArrayFilter calls updateFilter for every value, selected or not
AddEmitsChangeAlways(currentArray, value) == TRUE

\* if (!currentArray.includes(value)): addToArrayFilter calls updateFilter
AddEmitsChange(currentArray, value) == ~Includes(currentArray, value)

addToArrayFilter(key, value) ==
  /\ value \in AvailableOptions(key)
  /\ AddEmitsChange(filters[key], value)
  /\ updateFilter(key, Append(filters[key], value))

removeFromArrayFilter(key, value) ==
  /\ Includes(filters[key], value)
  /\ updateFilter(key, SelectSeq(filters[key], LAMBDA item : item # value))

\* the two date inputs
setDateRangeStart(value) == updateFilter("dateRange", [filters.dateRange EXCEPT !.start = value])
setDateRangeEnd(value) == updateFilter("dateRange", [filters.dateRange EXCEPT !.end = value])

clearAllFilters == setFiltersDeferred(EmptyFilters)

\* getActiveFilterCount of the FilterPanel
getActiveFilterCount(f) ==
  (IF f.dateRange.start # "" \/ f.dateRange.end # "" THEN 1 ELSE 0)
    + (IF Len(f.psp) > 0 THEN 1 ELSE 0)
    + (IF Len(f.country) > 0 THEN 1 ELSE 0)
    + (IF Len(f.status) > 0 THEN 1 ELSE 0)
    + (IF Len(f.cardType) > 0 THEN 1 ELSE 0)
    + (IF Len(f.midAlias) > 0 THEN 1 ELSE 0)
    + (IF Len(f.type) > 0 THEN 1 ELSE 0)
    + (IF Len(f.method) > 0 THEN 1 ELSE 0)

\* a click on a country row of a chart
handleCountrySelect(country) ==
  /\ country \in DOMAIN countryDistribution
  /\ selectedCountryDetails' = country
  /\ UNCHANGED <<rawData, fileName, timezone, filters>>
  /\ UNCHANGED uploadVars
  /\ UNCHANGED renderVars

\* Dialog onOpenChange / close button: setSelectedCountryDetails(null)
closeCountryDetails ==
  /\ selectedCountryDetails # ""
  /\ selectedCountryDetails' = ""
  /\ UNCHANGED <<rawData, fileName, timezone, filters>>
  /\ UNCHANGED uploadVars
  /\ UNCHANGED renderVars

(***************************************************************************)
(* Timeline view (ChartsEnhanced.tsx)                                      *)
(***************************************************************************)
\* the length of a day in hours; the times of this section are in hours,
\* not milliseconds, to stay within 32-bit integers (every time below is a
\* whole number of hours, so the quotients of the code are unchanged)
DayHours == DAY \div HOUR

\* new Date('YYYY-MM-DD').getTime(): midnight UTC of the date (2024 is a
\* leap year: 31 March is 90 days after 1 January)
DateGetTime(s) ==
  CASE s = "2023-12-31" -> -DayHours
    [] s = "2024-01-01" -> 0
    [] s = "2024-01-02" -> DayHours
    [] s = "2024-01-30" -> 29 * DayHours
    [] s = "2024-01-31" -> 30 * DayHours
    [] s = "2024-03-30" -> 89 * DayHours
    [] s = "2024-03-31" -> 90 * DayHours
    [] s = "2024-04-01" -> 91 * DayHours

\* Math.ceil(n / d) for d > 0
MathCeilDiv(n, d) == -((-n) \div d)

\* getTimelineView, with dateRangeFilter = filters.dateRange
getTimelineView(dateRangeFilter) ==
  IF dateRangeFilter.start = "" \/ dateRangeFilter.end = "" THEN "hourly"
  ELSE LET daysDiff == MathCeilDiv(DateGetTime(dateRangeFilter.end)
                                     - DateGetTime(dateRangeFilter.start),
                                   DayHours)
       IN IF daysDiff <= 1 THEN "hourly"
          ELSE IF daysDiff <= 30 THEN "daily"
          ELSE IF daysDiff <= 90 THEN "weekly"
          ELSE "monthly"

timelineView == getTimelineView(filters.dateRange)

\* the charts are on screen once a file has been loaded
ChartsMounted == rawData # << >>

(***************************************************************************)
(* State machine: renders and the useMemo caches of the Dashboard          *)
(***************************************************************************)
\* a dependency array that leaves the timezone out
TransactionsDepsChangedRawOnly(r, d) == "rawData" \in d

\* [rawData, timezone]: has a dependency of the transactions stage changed
\* since render r, d being the state set since then
TransactionsDepsChanged(r, d) == "rawData" \in d \/ timezone # r.timezone

\* [transactions, filters]: a stage that ran returns a new array
FilteredDepsChanged(r, d) == TransactionsDepsChanged(r, d) \/ "filters" \in d

\* [filteredTransactions, filters]
KpiDepsChanged(r, d) == FilteredDepsChanged(r, d) \/ "filters" \in d

\* availableOptions: [transactions]
OptionsDepsChanged(r, d) == TransactionsDepsChanged(r, d)

\* [filteredTransactions, availableOptions, timezone]
ChartDepsChanged(r, d) ==
  FilteredDepsChanged(r, d) \/ OptionsDepsChanged(r, d) \/ timezone # r.timezone

\* [selectedCountryDetails, filteredTransactions, availableOptions.psps]
CountryDetailDepsChanged(r, d) ==
  \/ selectedCountryDetails # r.selectedCountryDetails
  \/ FilteredDepsChanged(r, d)
  \/ OptionsDepsChanged(r, d)

\* a render of the current state after render r: every stage whose
\* dependencies changed runs on what it reads now, the others keep their cache
Rerender(r, d) ==
  LET txIn == IF TransactionsDepsChanged(r, d)
              THEN [rawData |-> rawData, timezone |-> timezone]
              ELSE r.transactions
      ftIn == IF FilteredDepsChanged(r, d)
              THEN [transactions |-> txIn, filters |-> filters, timezone |-> timezone]
              ELSE r.filteredTransactions
      psps == IF OptionsDepsChanged(r, d) THEN txIn ELSE r.countryDetailData.psps
  IN [ timezone |-> timezone, filters |-> filters,
       selectedCountryDetails |-> selectedCountryDetails,
       transactions |-> txIn,
       filteredTransactions |-> ftIn,
       kpiData |-> IF KpiDepsChanged(r, d)
                   THEN [filteredTransactions |-> ftIn, timezone |-> timezone]
                   ELSE r.kpiData,
       chartData |-> IF ChartDepsChanged(r, d)
                     THEN [filteredTransactions |-> ftIn, timezone |-> timezone]
                     ELSE r.chartData,
       countryDetailData |-> IF CountryDetailDepsChanged(r, d)
                             THEN [ selectedCountryDetails |-> selectedCountryDetails,
                                    filteredTransactions |-> ftIn, psps |-> psps,
                                    timezone |-> timezone ]
                             ELSE r.countryDetailData ]

\* the cached value of a stage, from the inputs it read
MemoTransactions(m) == Normalize(m.rawData, m.timezone)
MemoFiltered(m) == ApplyFilters(MemoTransactions(m.transactions), m.filters, m.timezone)

\* the KPI snapshot of a filtered list: the counts, rate and total with the
\* average and its label
KpiSnapshot(txs, tz) == [data |-> KpiData(txs), avg |-> KpiAvgAmount(txs, tz)]

\* the rollups of the chartData stage
ChartData(txs, tz) ==
  [ pspPerformance |-> PspPerformance(txs),
    midAliasPerformance |-> MidAliasPerformance(txs),
    countryDistribution |-> CountryDistribution(txs),
    statusBreakdown |-> StatusBreakdown(txs),
    throws |-> TimelineThrows(txs, tz),
    timelineData |-> TimelineStats(txs, tz),
    dailyTimelineData |-> DailyTimelineStats(txs),
    weeklyTimelineData |-> WeeklyTimelineStats(txs, tz),
    monthlyTimelineData |-> MonthlyTimelineStats(txs, tz) ]

\* countryDetailData, null ("") when no country is selected
CountryDetailOrNull(txs, allTxs, selected, tz) ==
  IF selected = "" THEN "" ELSE CountryDetailData(txs, allTxs, selected, tz)

\* what the last committed render shows
renderedTransactions == MemoTransactions(rendered.transactions)
renderedFilteredTransactions == MemoFiltered(rendered.filteredTransactions)
renderedKpi ==
  KpiSnapshot(MemoFiltered(rendered.kpiData.filteredTransactions), rendered.kpiData.timezone)
renderedChartData ==
  ChartData(MemoFiltered(rendered.chartData.filteredTransactions), rendered.chartData.timezone)
renderedCountryDetail ==
  CountryDetailOrNull(MemoFiltered(rendered.countryDetailData.filteredTransactions),
                      MemoTransactions(rendered.countryDetailData.psps),
                      rendered.countryDetailData.selectedCountryDetails,
                      rendered.countryDetailData.timezone)

\* a state update is waiting for its render
RenderDue ==
  \/ dirty # {}
  \/ timezone # rendered.timezone
  \/ selectedCountryDetails # rendered.selectedCountryDetails

\* React commits a render of the current state
render ==
  /\ RenderDue
  /\ rendered' = Rerender(rendered, dirty)
  /\ dirty' = {}
  /\ UNCHANGED <<rawData, fileName, timezone, filters, selectedCountryDetails>>
  /\ UNCHANGED uploadVars

\* handleDataLoaded, its render still to come
dataLoadedPending(data) ==
  /\ handleDataLoaded(data, "transactions.csv")
  /\ dirty' = dirty \cup {"rawData"}
  /\ UNCHANGED rendered
  /\ UNCHANGED uploadVars

\* startTransition(() => setTimezone(tz)), its render still to come
setTimezonePending(tz) ==
  /\ timezone' = tz
  /\ UNCHANGED <<rawData, fileName, filters, selectedCountryDetails>>
  /\ UNCHANGED uploadVars
  /\ UNCHANGED renderVars

\* startTransition(() => setFilters(next)), its render still to come
setFiltersPending(next) ==
  /\ filters' = next
  /\ dirty' = dirty \cup {"filters"}
  /\ UNCHANGED <<rawData, fileName, timezone, selectedCountryDetails>>
  /\ UNCHANGED rendered
  /\ UNCHANGED uploadVars

\* the handlers of the FilterPanel: `filters` and availableOptions are its
\* props, those of the last committed render
panelUpdateFilter(key, value) == setFiltersPending([rendered.filters EXCEPT ![key] = value])

panelAddToArrayFilter(key, value) ==
  /\ value \in OptionsOf(renderedTransactions, key)
  /\ AddEmitsChange(rendered.filters[key], value)
  /\ panelUpdateFilter(key, Append(rendered.filters[key], value))

panelRemoveFromArrayFilter(key, value) ==
  /\ Includes(rendered.filters[key], value)
  /\ panelUpdateFilter(key, SelectSeq(rendered.filters[key], LAMBDA item : item # value))

panelSetDateRangeStart(value) ==
  panelUpdateFilter("dateRange", [rendered.filters.dateRange EXCEPT !.start = value])

panelClearAllFilters == setFiltersPending(EmptyFilters)

\* a click on a country row of a chart, as the last render drew it
countrySelectPending(country) ==
  /\ country \in DOMAIN renderedChartData.countryDistribution
  /\ selectedCountryDetails' = country
  /\ UNCHANGED <<rawData, fileName, timezone, filters>>
  /\ UNCHANGED uploadVars
  /\ UNCHANGED renderVars

\* the dialog, open in the last render, is closed
closeCountryDetailsPending ==
  /\ rendered.selectedCountryDetails # ""
  /\ selectedCountryDetails' = ""
  /\ UNCHANGED <<rawData, fileName, timezone, filters>>
  /\ UNCHANGED uploadVars
  /\ UNCHANGED renderVars

(***************************************************************************)
(* State machine: the FileUpload component (FileUpload.tsx)                *)
(***************************************************************************)
BATCH_SIZE == 1000
PREVIEW == 5
chunkSize == 1000

\* file.name.split('.').pop()?.toLowerCase()
FileExtension(name) ==
  CASE name = "orders.csv" -> "csv"
    [] name = "ORDERS.CSV" -> "csv"
    [] name = "book.xlsx" -> "xlsx"
    [] name = "old.xls" -> "xls"
    [] name = "notes.txt" -> "txt"
    [] OTHER -> ""

\* data row i of a file, as Papa.parse (header: true) or sheet_to_json yields it
UploadRow(i) ==
  [ id |-> ToString(i), merchantOrderId |-> "", transactionId |-> "", status |-> "approved",
    amount |-> "100", pspName |-> "X", country |-> "DE", midAlias |-> "",
    processing_date |-> "2024-01-01T17:00:00Z", cardType |-> "", declineReason |-> "" ]

\* the data rows of a file of n rows, in file order
FileRows(n) == [i \in 1..n |-> UploadRow(i)]

\* Math.ceil(n / chunkSize)
CeilDiv(n, d) == (n + d - 1) \div d

\* the run is over: the finally block, and the catch block when err is a message
Finish(err) ==
  /\ isProcessing' = FALSE
  /\ error' = IF err # "" THEN "Failed to process file: " \o err ELSE error
  /\ task' = [task EXCEPT !.pc = "done"]
  /\ UNCHANGED <<rawData, fileName, timezone, filters, selectedCountryDetails>>
  /\ UNCHANGED renderVars

\* onDataLoaded(data, file.name) as the last act of a run that then ends
\* without error: resolve(), the end of the try block, the finally block
DeliverAndFinish(data) ==
  /\ handleDataLoaded(data, task.file.name)
  /\ isProcessing' = FALSE
  /\ task' = [task EXCEPT !.pc = "done", !.calls = task.calls + 1, !.rows = data, !.batch = <<>>]
  /\ UNCHANGED error
  /\ UNCHANGED renderVars

\* processFile up to its first await; the drop zone and the file input are
\* disabled while isProcessing
processFile(file) ==
  /\ ~isProcessing
  /\ task.pc \in {"idle", "done"}
  /\ IF FileExtension(file.name) \notin {"csv", "xlsx", "xls"}
     THEN /\ error' = "Please upload a CSV or Excel (.xlsx, .xls) file"
          /\ task' = [IdleTask EXCEPT !.pc = "done", !.file = file,
                                      !.prevData = rawData, !.prevName = fileName]
          /\ UNCHANGED isProcessing
     ELSE /\ isProcessing' = TRUE
          /\ error' = ""
          /\ task' = [IdleTask EXCEPT !.pc = "delay", !.file = file,
                                      !.prevData = rawData, !.prevName = fileName]
  /\ UNCHANGED <<rawData, fileName, timezone, filters, selectedCountryDetails>>
  /\ UNCHANGED renderVars

\* after the 100 ms delay: the size check, then processCSV or processExcel
\* up to their first callback
afterDelay ==
  /\ task.pc = "delay"
  /\ UNCHANGED renderVars
  /\ IF task.file.big
     THEN Finish("File size exceeds 10MB limit")
     ELSE /\ task' = [task EXCEPT !.pc = IF FileExtension(task.file.name) = "csv"
                                         THEN "csv" ELSE "excel"]
          /\ UNCHANGED <<rawData, fileName, timezone, filters, selectedCountryDetails,
                         isProcessing, error>>

\* the parser meets its read error after task.file.at rows
ParserErrorDue == task.file.fault = "parser" /\ task.rowCount = task.file.at

\* the rows Papa hands to step: preview: 5 stops after the first 5 data rows
StepLimit == IF task.file.n < PREVIEW THEN task.file.n ELSE PREVIEW

\* the step callback of Papa.parse for the next row.  When the callback
\* throws, its catch calls parser.abort(), on which Papa calls complete
\* (pushing the batch and calling onDataLoaded and resolve) before the
\* reject of line 133, which then has no effect on the resolved promise.
csvStep ==
  /\ task.pc = "csv"
  /\ task.rowCount < StepLimit
  /\ ~ParserErrorDue
  /\ UNCHANGED renderVars
  /\ IF task.file.fault = "step" /\ task.file.at = task.rowCount + 1
     THEN DeliverAndFinish(task.rows \o task.batch)
     ELSE LET batch == Append(task.batch, UploadRow(task.rowCount + 1))
              rowCount == task.rowCount + 1
          IN /\ task' = IF rowCount % BATCH_SIZE = 0
                        THEN [task EXCEPT !.rowCount = rowCount,
                                          !.rows = task.rows \o batch, !.batch = <<>>]
                        ELSE [task EXCEPT !.rowCount = rowCount, !.batch = batch]
             /\ UNCHANGED <<rawData, fileName, timezone, filters, selectedCountryDetails,
                            isProcessing, error>>

\* the error callback of Papa.parse: reject, then catch and finally of processFile
csvError ==
  /\ task.pc = "csv"
  /\ ParserErrorDue
  /\ Finish("CSV parsing error: read failed")

\* the complete callback of Papa.parse, once every row, or the first 5 of
\* a longer file, went through step
csvComplete ==
  /\ task.pc = "csv"
  /\ task.rowCount = StepLimit
  /\ ~ParserErrorDue
  /\ DeliverAndFinish(task.rows \o task.batch)

\* a file longer than the preview: Papa stops the parse at the row after the
\* last previewed one; whether it then calls complete is outside this
\* repository, so the run may also stay here, its promise unsettled
csvPreviewStop ==
  /\ task.pc = "csv"
  /\ task.rowCount = PREVIEW /\ task.file.n > PREVIEW
  /\ ~ParserErrorDue
  /\ UNCHANGED renderVars
  /\ task' = [task EXCEPT !.pc = "stalled"]
  /\ UNCHANGED <<rawData, fileName, timezone, filters, selectedCountryDetails,
                 isProcessing, error>>

\* fileReader.onload up to the chunk loop, or fileReader.onerror
excelLoad ==
  /\ task.pc = "excel"
  /\ UNCHANGED renderVars
  /\ IF task.file.fault = "read"
     THEN Finish("Failed to read file: [object ProgressEvent]")
     ELSE IF task.file.fault = "convert"
          THEN Finish("Excel processing error: conversion failed")
          ELSE IF CeilDiv(task.file.n, chunkSize) = 0
               THEN Finish("")
               ELSE /\ task' = [task EXCEPT !.pc = "chunks", !.chunk = 0]
                    /\ UNCHANGED <<rawData, fileName, timezone, filters,
                                   selectedCountryDetails, isProcessing, error>>

\* one iteration of the chunk loop: the last one calls onDataLoaded with
\* the full jsonData, the others yield to the browser
excelChunk ==
  /\ task.pc = "chunks"
  /\ UNCHANGED renderVars
  /\ IF task.chunk = CeilDiv(task.file.n, chunkSize) - 1
     THEN DeliverAndFinish(FileRows(task.file.n))
     ELSE /\ task' = [task EXCEPT !.chunk = task.chunk + 1]
          /\ UNCHANGED <<rawData, fileName, timezone, filters, selectedCountryDetails,
                         isProcessing, error>>

(***************************************************************************)
(* Inputs                                                                  *)
(***************************************************************************)
RawRow(id, moid, txid, status, amount, psp, country, mid, date) ==
  [ id |-> id, merchantOrderId |-> moid, transactionId |-> txid, status |-> status,
    amount |-> amount, pspName |-> psp, country |-> country, midAlias |-> mid,
    processing_date |-> date, cardType |-> "", declineReason |-> "" ]

\* retried orders: order A is declined at X and approved twice at Y; two
\* rows without merchantOrderId share transactionId T; one row of another
\* status with no PSP, country or MID alias
OrderRows ==
  { RawRow("1", "A", "T1", "declined", "100", "X", "DE", "M1", "2024-01-01T17:00:00Z"),
    RawRow("2", "A", "T2", "approved", "100", "Y", "Germany", "M1", "2024-01-01T19:00:00Z"),
    RawRow("3", "A", "T3", "approved", "50", "Y", "DE", "M2", "2024-01-02T09:00:00"),
    RawRow("4", "", "T", "declined", "100", "X", "FR", "M1", "2024-01-02T14:00:00Z"),
    RawRow("5", "", "T", "approved", "n/a", "Z", "FR", "", "2024-01-02T19:30:00Z"),
    RawRow("", "B", "", "pending", "200", "", "", "", "2024-01-02T14:00:00Z") }

OrderUploads == SeqsUpTo(OrderRows, MaxRows)

OrderFilterChoices == {<<"status", "declined">>}

\* uploads of retried orders, the status filter and the country dialog; the
\* timezone stays GMT+0 here, SpecTime exercises the timezone and the dates
Next ==
  \/ \E data \in OrderUploads : dataLoaded(data)
  \/ \E c \in OrderFilterChoices : addToArrayFilter(c[1], c[2])
  \/ \E c \in OrderFilterChoices : removeFromArrayFilter(c[1], c[2])
  \/ clearAllFilters
  \/ \E country \in AvailableCountries(transactions) : handleCountrySelect(country)
  \/ closeCountryDetails

Spec == Init /\ [][Next]_vars

\* one approved order per row, at instants around the day boundaries of both
\* zones, one row carrying its own UTC offset and one with an unparseable date
TimeRow(id, date) == RawRow(id, "", "", "approved", "100", "X", "BD", "", date)

TimeRows ==
  { TimeRow("1", "2024-01-01T17:00:00Z"),
    TimeRow("2", "2024-01-01T19:00:00Z"),
    TimeRow("3", "2024-01-03T00:00:00+06:00"),
    TimeRow("4", "2024-01-02T23:59:59.999Z"),
    TimeRow("5", "not a date") }

TimeUploads == SeqsUpTo(TimeRows, MaxRows)

\* values of the two <input type="date">: '' when cleared
TimeDates == {"", "2024-01-01", "2024-01-02"}

\* uploads of dated rows, both timezones and the date range
NextTime ==
  \/ \E data \in TimeUploads : dataLoaded(data)
  \/ \E tz \in Timezones : setTimezoneDeferred(tz)
  \/ \E d \in TimeDates : setDateRangeStart(d)
  \/ \E d \in TimeDates : setDateRangeEnd(d)
  \/ clearAllFilters

SpecTime == Init /\ [][NextTime]_vars

\* rows that differ in every filter dimension: a card PSP, the crypto PSP
\* and the P2P PSP, Germany under two raw tokens, and one unparseable date
FilterRow(id, status, psp, country, mid, card, date) ==
  [ id |-> id, merchantOrderId |-> "", transactionId |-> "", status |-> status,
    amount |-> "100", pspName |-> psp, country |-> country, midAlias |-> mid,
    processing_date |-> date, cardType |-> card, declineReason |-> "" ]

FilterRows ==
  { FilterRow("1", "approved", "Stripe", "DE", "M1", "visa", "2024-01-01T17:00:00Z"),
    FilterRow("2", "approved", "Confirmo", "Germany", "M1", "visa", "2024-01-02T14:00:00Z"),
    FilterRow("3", "declined", "PayPal", "FR", "M2", "mc", "not a date") }

FilterUploads == SeqsUpTo(FilterRows, MaxRows)

\* the values picked in the Selects of the FilterPanel
FilterChoices ==
  { <<"psp", "Stripe">>, <<"country", "Germany">>, <<"country", "France">>,
    <<"status", "approved">>, <<"cardType", "visa">>, <<"midAlias", "M1">>,
    <<"method", "Crypto">> }

\* the start dates typed in the date input
FilterDates == {"", "2024-01-01", "2024-01-02"}

\* uploads and every set-valued filter of the FilterPanel plus the start date
NextFilter ==
  \/ \E data \in FilterUploads : dataLoaded(data)
  \/ \E c \in FilterChoices : addToArrayFilter(c[1], c[2])
  \/ \E c \in FilterChoices : removeFromArrayFilter(c[1], c[2])
  \/ \E d \in FilterDates : setDateRangeStart(d)
  \/ clearAllFilters

SpecFilter == Init /\ [][NextFilter]_vars

\* the files loaded under the FilterPanel: none, or one of a single row,
\* each offering its own options
PanelUploads == {data \in FilterUploads : Len(data) <= 1}

\* the handlers of the FilterPanel over every set-valued filter, with
\* uploads that change the options on offer
NextPanel ==
  \/ \E data \in PanelUploads : dataLoaded(data)
  \/ \E c \in FilterChoices : addToArrayFilter(c[1], c[2])
  \/ \E c \in FilterChoices : removeFromArrayFilter(c[1], c[2])
  \/ \E d \in FilterDates : setDateRangeStart(d)
  \/ clearAllFilters

SpecPanel == Init /\ [][NextPanel]_vars

\* one approved row per PSP name: the crypto PSP in two spellings, the P2P
\* PSP, a card PSP and a row without PSP
MethodRow(id, psp) == FilterRow(id, "approved", psp, "DE", "M1", "visa", "2024-01-01T17:00:00Z")

MethodRows ==
  { MethodRow("1", "Confirmo"), MethodRow("2", "confirmo"), MethodRow("3", "PayPal"),
    MethodRow("4", "Stripe"), MethodRow("5", "") }

MethodUploads == SeqsUpTo(MethodRows, MaxRows)

\* the fixed items of the method Select
Methods == {"Card", "Crypto", "P2P"}

\* uploads and the method filter
NextMethod ==
  \/ \E data \in MethodUploads : dataLoaded(data)
  \/ \E m \in Methods : addToArrayFilter("method", m)
  \/ \E m \in Methods : removeFromArrayFilter("method", m)
  \/ clearAllFilters

SpecMethod == Init /\ [][NextMethod]_vars

\* a file without failure
GoodFile(name, n) == [name |-> name, big |-> FALSE, n |-> n, fault |-> "none", at |-> 0]

\* the row counts of the uploaded files: none, few, around the preview
\* limit and around the batch size
FileSizes == {0, 1, PREVIEW, PREVIEW + 1, BATCH_SIZE, BATCH_SIZE + 1, 2 * BATCH_SIZE}

\* files of every kind: unsupported, too large, CSV and Excel of several
\* lengths, and files that meet each of the failures
Files ==
  {GoodFile("orders.csv", n) : n \in FileSizes}
    \cup {GoodFile("book.xlsx", n) : n \in {0, 1, chunkSize, chunkSize + 1}}
    \cup { GoodFile("ORDERS.CSV", 1), GoodFile("old.xls", 1), GoodFile("notes.txt", 1),
           [GoodFile("orders.csv", 1) EXCEPT !.big = TRUE],
           [GoodFile("book.xlsx", 1) EXCEPT !.big = TRUE],
           [GoodFile("orders.csv", 3) EXCEPT !.fault = "parser", !.at = 0],
           [GoodFile("orders.csv", 3) EXCEPT !.fault = "parser", !.at = 2],
           [GoodFile("orders.csv", 3) EXCEPT !.fault = "step", !.at = 1],
           [GoodFile("orders.csv", 3) EXCEPT !.fault = "step", !.at = 3],
           [GoodFile("book.xlsx", 3) EXCEPT !.fault = "read"],
           [GoodFile("book.xlsx", 3) EXCEPT !.fault = "convert"] }

\* uploads through the FileUpload component, callback by callback
NextUpload ==
  \/ \E file \in Files : processFile(file)
  \/ afterDelay
  \/ csvStep
  \/ csvError
  \/ csvComplete
  \/ csvPreviewStop
  \/ excelLoad
  \/ excelChunk

SpecUpload == Init /\ [][NextUpload]_vars

\* n copies of a raw row
Copies(row, n) == [i \in 1..n |-> row]

\* rows without an id column (every row gets its own synthesized id): two
\* approved rows a day apart, an approved row with an unreadable amount on
\* the first day, a declined row with a reason
EarlyApprovedRow == RawRow("", "", "", "approved", "100", "X", "DE", "", "2024-01-01T17:00:00Z")
LateApprovedRow == RawRow("", "", "", "approved", "120", "Y", "FR", "", "2024-01-02T14:00:00Z")
NoAmountRow == RawRow("", "", "", "approved", "n/a", "X", "DE", "", "2024-01-01T19:00:00Z")
DeclinedRow ==
  [ RawRow("", "", "", "declined", "100", "X", "DE", "", "2024-01-02T14:00:00Z")
      EXCEPT !.declineReason = "insufficient_funds" ]

\* a merchant order declined and then approved on retry
RetriedOrder ==
  << RawRow("", "A", "", "declined", "100", "X", "DE", "", "2024-01-01T17:00:00Z"),
     RawRow("", "A", "", "approved", "100", "X", "DE", "", "2024-01-01T17:00:00Z") >>

InsightUploads ==
  { Copies(EarlyApprovedRow, a) \o Copies(NoAmountRow, c) \o Copies(LateApprovedRow, b)
      \o Copies(DeclinedRow, d) \o (IF r = 1 THEN RetriedOrder ELSE << >>) :
      a \in 0..MaxApproved, b \in 0..MaxApproved, c \in 0..1, d \in 0..MaxDeclined, r \in 0..1 }

InsightFilterChoices == {<<"status", "approved">>, <<"status", "declined">>}

\* uploads of few to many rows, both timezones and the status filter
NextInsight ==
  \/ \E data \in InsightUploads : dataLoaded(data)
  \/ \E tz \in Timezones : setTimezoneDeferred(tz)
  \/ \E c \in InsightFilterChoices : addToArrayFilter(c[1], c[2])
  \/ \E c \in InsightFilterChoices : removeFromArrayFilter(c[1], c[2])
  \/ clearAllFilters

SpecInsight == Init /\ [][NextInsight]_vars

\* the dates typed in the two date inputs: spans of 1, 2, 30, 31, 90, 91
\* and 92 days and ranges that end before they start
ViewDates ==
  {"", "2023-12-31", "2024-01-01", "2024-01-02", "2024-01-30", "2024-01-31",
   "2024-03-30", "2024-03-31", "2024-04-01"}

ViewUploads == SeqsUpTo({TimeRow("1", "2024-01-01T17:00:00Z")}, MaxRows)

\* uploads and the two date inputs
NextView ==
  \/ \E data \in ViewUploads : dataLoaded(data)
  \/ \E d \in ViewDates : setDateRangeStart(d)
  \/ \E d \in ViewDates : setDateRangeEnd(d)
  \/ clearAllFilters

SpecView == Init /\ [][NextView]_vars

\* an approved German order late on 1 January UTC, which is 2 January in
\* Dhaka, and a declined French one on 2 January
RenderRows ==
  { RawRow("1", "", "", "approved", "100", "X", "DE", "M1", "2024-01-01T19:00:00Z"),
    RawRow("2", "", "", "declined", "50", "Y", "FR", "M2", "2024-01-02T14:00:00Z") }

RenderUploads == SeqsUpTo(RenderRows, MaxRenderRows)

RenderFilterChoices == {<<"status", "approved">>}

RenderDates == {"", "2024-01-02"}

\* uploads, timezone changes, filter intents and country selections, each
\* followed sooner or later by a render
NextRender ==
  \/ \E data \in RenderUploads : dataLoadedPending(data)
  \/ \E tz \in Timezones : setTimezonePending(tz)
  \/ \E c \in RenderFilterChoices : panelAddToArrayFilter(c[1], c[2])
  \/ \E c \in RenderFilterChoices : panelRemoveFromArrayFilter(c[1], c[2])
  \/ \E d \in RenderDates : panelSetDateRangeStart(d)
  \/ panelClearAllFilters
  \/ \E country \in {"Germany", "France"} : countrySelectPending(country)
  \/ closeCountryDetailsPending
  \/ render

SpecRender == Init /\ [][NextRender]_vars

(***************************************************************************)
(* Properties                                                              *)
(***************************************************************************)
\* rows of the filtered list that carry a given merchant-order key and status
HasRow(txs, key, status) ==
  \E i \in 1..Len(txs) : MoidKey(txs[i]) = key /\ txs[i].status = status

RowCount(txs, key, status) ==
  Cardinality({i \in 1..Len(txs) : MoidKey(txs[i]) = key /\ txs[i].status = status})

\* the deduplicated counts as the rule states them, row by row
DedupApproved(txs) == Cardinality({k \in MoidKeys(txs) : HasRow(txs, k, "approved")})
DedupDeclined(txs) ==
  Cardinality({k \in MoidKeys(txs) : ~HasRow(txs, k, "approved") /\ HasRow(txs, k, "declined")})

\* C1: grouping the filtered rows by merchant-order key, every group with an
\* approved row adds exactly 1 to the approved count and 0 to the declined
\* count however many declined rows it holds, every group with a declined
\* but no approved row adds exactly 1 to the declined count, and every other
\* group adds nothing.
KpiDedupOverride ==
  /\ kpiData.approvedOverall = DedupApproved(filteredTransactions)
  /\ kpiData.declinedOverall = DedupDeclined(filteredTransactions)
  /\ kpiData.totalTransactions = kpiData.approvedOverall

\* an order approved once and declined twice: one approved, no declined count
KpiDedupOverrideWitness ==
  /\ \E k \in MoidKeys(filteredTransactions) :
       /\ RowCount(filteredTransactions, k, "approved") = 1
       /\ RowCount(filteredTransactions, k, "declined") = 2
  /\ kpiData.approvedOverall = 1
  /\ kpiData.declinedOverall = 0

\* indexes of the first approved row of every merchant order, in input order
FirstApprovedIndexes(txs) ==
  {i \in 1..Len(txs) :
     /\ txs[i].status = "approved"
     /\ \A j \in 1..(i - 1) : ~(MoidKey(txs[j]) = MoidKey(txs[i]) /\ txs[j].status = "approved")}

\* C2: totalApprovedAmount is the sum, over the merchant orders holding an
\* approved row, of the amount of the first approved row of the order in
\* input order; further approved rows and all declined rows add nothing.
KpiTotalIsFirstApprovedAmount ==
  LET txs == filteredTransactions
      first == FirstApprovedIndexes(txs)
  IN kpiData.totalAmount = SumOver(first, [i \in first |-> txs[i].amount])

\* one order approved twice, amounts 100 then 50: the total is 100
KpiTotalIsFirstApprovedAmountWitness ==
  /\ Len(filteredTransactions) = 2
  /\ MoidKey(filteredTransactions[1]) = MoidKey(filteredTransactions[2])
  /\ filteredTransactions[1].status = "approved" /\ filteredTransactions[1].amount = 100
  /\ filteredTransactions[2].status = "approved" /\ filteredTransactions[2].amount = 50
  /\ kpiData.totalAmount = 100

\* the three rollups under one shape: value -> counts and amount
RollupView(dim) ==
  CASE dim = "pspName" ->
         [v \in DOMAIN pspPerformance |->
            [ approvedCount |-> pspPerformance[v].approvedCount,
              declinedCount |-> pspPerformance[v].declined,
              approvedAmount |-> pspPerformance[v].approvedAmount ]]
    [] dim = "midAlias" ->
         [v \in DOMAIN midAliasPerformance |->
            [ approvedCount |-> midAliasPerformance[v].approvedCount,
              declinedCount |-> midAliasPerformance[v].declinedCount,
              approvedAmount |-> midAliasPerformance[v].approvedAmount ]]
    [] dim = "country_full" ->
         [v \in DOMAIN countryDistribution |->
            [ approvedCount |-> countryDistribution[v].approvedCount,
              declinedCount |-> countryDistribution[v].declinedCount,
              approvedAmount |-> countryDistribution[v].amount ]]

\* the deduplication rule run on the rows whose dimension equals v
SliceDedup(txs, dim, v) ==
  LET slice == SelectSeq(txs, LAMBDA tx : tx[dim] = v)
      first == FirstApprovedIndexes(slice)
  IN [ approvedCount |-> DedupApproved(slice),
       declinedCount |-> DedupDeclined(slice),
       approvedAmount |-> SumOver(first, [i \in first |-> slice[i].amount]) ]

\* the values of a dimension that occur in the filtered rows
OccurringValues(txs, dim) == {txs[i][dim] : i \in 1..Len(txs)} \ {""}

\* C3: for each of the three dimensions and every value v occurring in the
\* filtered rows, the rollup row of v carries the slice-scoped deduplicated
\* approved count, declined count and approved amount, and every v whose
\* approvedCount + declinedCount is positive has a rollup row.
RollupsAreSliceScoped ==
  \A dim \in Dimensions : \A v \in OccurringValues(filteredTransactions, dim) :
    LET expected == SliceDedup(filteredTransactions, dim, v)
    IN /\ v \in DOMAIN RollupView(dim) => RollupView(dim)[v] = expected
       /\ expected.approvedCount + expected.declinedCount > 0 => v \in DOMAIN RollupView(dim)

\* C4: when every merchant order has all its rows under one PSP, the PSP
\* rollup's approvedCount + declinedCount, summed over its rows, equals the
\* deduplicated approved + declined count of the KPI snapshot.
PspRollupConservation ==
  LET txs == filteredTransactions
      partitioned ==
        /\ \A i \in 1..Len(txs) : txs[i].pspName # ""
        /\ \A i, j \in 1..Len(txs) : MoidKey(txs[i]) = MoidKey(txs[j]) => txs[i].pspName = txs[j].pspName
      rollupTotal ==
        SumOver(DOMAIN pspPerformance,
                [p \in DOMAIN pspPerformance |-> pspPerformance[p].approvedCount + pspPerformance[p].declined])
  IN partitioned => rollupTotal = kpiData.approvedOverall + kpiData.declinedOverall

\* C5: the country detail of the selected country counts every merchant
\* order at most once, approved overriding declined, so that its totals
\* equal the selected country's row of the country rollup.
CountryDetailMatchesRollup ==
  (selectedCountryDetails # "" /\ selectedCountryDetails \in DOMAIN countryDistribution) =>
    LET row == countryDistribution[selectedCountryDetails]
    IN /\ countryDetailData.totalTransactions = row.approvedCount
       /\ countryDetailData.declinedTransactions = row.declinedCount
       /\ countryDetailData.totalAmount = row.amount
       /\ countryDetailData.approvalRate = row.approvalRate

\* C6: a raw row without merchantOrderId is grouped by its transactionId
\* when it has one: two such rows sharing a transactionId fall in one group,
\* whatever their ids.
MoidFallsBackToTransactionId ==
  \A i, j \in 1..Len(rawData) :
    ( /\ rawData[i].merchantOrderId = "" /\ rawData[j].merchantOrderId = ""
      /\ rawData[i].transactionId # ""
      /\ rawData[i].transactionId = rawData[j].transactionId )
    => MoidKey(transactions[i]) = MoidKey(transactions[j])

ApprovalRateDefined ==
  LET approved == DedupApproved(filteredTransactions)
      declined == DedupDeclined(filteredTransactions)
      rate == kpiData.approvalRate
  IN /\ rate.kind = "num" /\ rate.den > 0
     /\ 0 <= rate.num /\ rate.num <= 100 * rate.den
     /\ IF approved + declined = 0
        THEN rate.num = 0
        ELSE rate.num * (approved + declined) = 100 * approved * rate.den

\* one approved and two declined orders: a rate of 100/3
ApprovalRateDefinedWitness ==
  /\ kpiData.approvedOverall = 1
  /\ kpiData.declinedOverall = 2
  /\ kpiData.approvalRate.num * 3 = 100 * kpiData.approvalRate.den

\* a transaction with its timezone-dependent label blanked
WithoutLocalDate(tx) == [tx EXCEPT !.local_date = ""]

Passes(tx) == PassesFilters(tx, filters, timezone)

\* C10: with the active timezone Z, a transaction passes the date range iff
\* its instant is >= start-of-day(start) in Z when start is set and
\* <= end-of-day(end) in Z when end is set; equivalently iff its local
\* calendar date in Z lies in [start, end].
DateRangeByInstant ==
  \A i \in 1..Len(transactions) :
    LET tx == transactions[i]
        ts == tx.processing_ts
        zone == TzName(timezone)
        start == filters.dateRange.start
        end == filters.dateRange.end
        afterStart == start = "" \/ (~ts.nan /\ ts.v >= StartOfDay(start, zone))
        beforeEnd == end = "" \/ (~ts.nan /\ ts.v <= EndOfDay(end, zone))
        dateAfterStart ==
          start = "" \/ (tx.local_date # "Invalid date" /\ DateIndex(tx.local_date) >= DateIndex(start))
        dateBeforeEnd ==
          end = "" \/ (tx.local_date # "Invalid date" /\ DateIndex(tx.local_date) <= DateIndex(end))
    IN /\ Passes(tx) <=> (afterStart /\ beforeEnd)
       /\ Passes(tx) <=> (dateAfterStart /\ dateBeforeEnd)

\* the value a transaction carries in a set-valued filter dimension
FilterValue(tx, key) ==
  CASE key = "psp" -> tx.pspName
    [] key = "country" -> tx.country_full
    [] key = "status" -> tx.status
    [] key = "cardType" -> tx.cardType
    [] key = "midAlias" -> tx.midAlias
    [] key = "method" -> pspToMethod(tx.pspName)

FilterKeys == {"psp", "country", "status", "cardType", "midAlias", "method"}

\* the instant lies within the inclusive day boundaries that are set
WithinDateRange(tx, f, tz) ==
  LET ts == tx.processing_ts
      zone == TzName(tz)
  IN /\ f.dateRange.start = "" \/ (~ts.nan /\ ts.v >= StartOfDay(f.dateRange.start, zone))
     /\ f.dateRange.end = "" \/ (~ts.nan /\ ts.v <= EndOfDay(f.dateRange.end, zone))

\* the transactions the filter semantics keeps, by index
KeptIndexes(txs, f, tz) ==
  {i \in 1..Len(txs) :
     /\ \A key \in FilterKeys : f[key] # <<>> => FilterValue(txs[i], key) \in Range(f[key])
     /\ WithinDateRange(txs[i], f, tz)}

\* C11: the filtered result is exactly the transactions that have, for every
\* dimension with a non-empty set, their value in that set and that satisfy
\* the date range; an empty set is no constraint, and with all filters empty
\* the result is the full list.
FilterSemantics ==
  LET kept == KeptIndexes(transactions, filters, timezone)
  IN /\ \A i \in 1..Len(transactions) : Passes(transactions[i]) <=> i \in kept
     /\ Len(filteredTransactions) = Cardinality(kept)
     /\ filters = EmptyFilters => filteredTransactions = transactions

\* g constrains one more set-valued dimension than f and is otherwise f
AddsConstraint(f, g) ==
  \E key \in FilterKeys : f[key] = <<>> /\ g[key] # <<>> /\ g = [f EXCEPT ![key] = g[key]]

\* g has a narrower date range than f and is otherwise f
NarrowsDateRange(f, g) ==
  /\ g = [f EXCEPT !.dateRange = g.dateRange]
  /\ g.dateRange # f.dateRange
  /\ f.dateRange.start # "" =>
        g.dateRange.start # "" /\ DateIndex(g.dateRange.start) >= DateIndex(f.dateRange.start)
  /\ f.dateRange.end # "" =>
        g.dateRange.end # "" /\ DateIndex(g.dateRange.end) <= DateIndex(f.dateRange.end)

\* C12: a step that keeps the transaction list and adds a value constraint
\* to a previously unconstrained dimension, or narrows the date range,
\* yields a filtered result that is a subset of the previous one, so its
\* size does not increase.
FilterMonotone ==
  [][ ( /\ rawData' = rawData /\ timezone' = timezone
        /\ AddsConstraint(filters, filters') \/ NarrowsDateRange(filters, filters') )
      => /\ \A i \in 1..Len(transactions) :
              PassesFilters(transactions[i], filters', timezone)
                => PassesFilters(transactions[i], filters, timezone)
         /\ Len(filteredTransactions') <= Len(filteredTransactions) ]_vars

\* two dimensions constrained and a start date set, with rows filtered out
\* and a row left
FilterMonotoneWitness ==
  /\ filters.psp # <<>> /\ filters.status # <<>> /\ filters.dateRange.start # ""
  /\ Len(filteredTransactions) > 0
  /\ Len(filteredTransactions) < Len(transactions)

\* the display names of a list of transactions, empty names left out
DisplayNames(txs) == {txs[i].country_full : i \in 1..Len(txs)} \ {""}

\* C13: rows whose raw country tokens normalize to one display name are one
\* country wherever countries are filtered or aggregated: both pass a
\* country filter naming the display name, the country rollup has one row
\* for them, the top-country rule of the insight engine counts them as one
\* country, and the heatmap has one row for them.
CountryIdentity ==
  LET txs == filteredTransactions
      approved == SelectSeq(txs, IsApproved)
      bucketed == SelectSeq(txs, HasHeatmapBucket)
  IN /\ \A i, j \in 1..Len(transactions) :
          transactions[i].country_full = transactions[j].country_full =>
            ( InSet(filters.country, transactions[i].country_full)
                <=> InSet(filters.country, transactions[j].country_full) )
     /\ \A i \in 1..Len(transactions) :
          Includes(filters.country, transactions[i].country_full) =>
            InSet(filters.country, transactions[i].country_full)
     /\ DOMAIN countryDistribution \subseteq DisplayNames(txs)
     /\ Cardinality(InsightCountryKeys(txs) \ {""}) = Cardinality(DisplayNames(approved))
     /\ (TopCountryInsights(txs) # << >>) => Cardinality(DisplayNames(approved)) > 1
     /\ Cardinality(HeatmapCountries(txs) \ {"Unknown"}) = Cardinality(DisplayNames(bucketed))

\* the method of a PSP name as the mapping is specified, spelling by spelling
MethodOfName(psp) ==
  IF psp \in {"confirmo", "Confirmo", "CONFIRMO"} THEN "Crypto"
  ELSE IF psp \in {"paypal", "PayPal", "PAYPAL"} THEN "P2P"
  ELSE "Card"

\* C14: every PSP name maps to exactly one of Card, Crypto, P2P ('confirmo'
\* to Crypto and 'paypal' to P2P whatever the case, every other name and the
\* empty name to Card); with a non-empty method set a transaction passes iff
\* the method of its pspName is in the set, so method = ['Crypto'] keeps the
\* rows of the crypto PSP and none of a card PSP.
MethodFilter ==
  /\ \A i \in 1..Len(transactions) :
       LET tx == transactions[i]
       IN /\ pspToMethod(tx.pspName) \in {"Card", "Crypto", "P2P"}
          /\ pspToMethod(tx.pspName) = MethodOfName(tx.pspName)
          /\ filters.method # <<>> =>
               ( Passes(tx) <=> /\ PassesFilters(tx, [filters EXCEPT !.method = <<>>], timezone)
                                /\ MethodOfName(tx.pspName) \in Range(filters.method) )
  /\ filters.method = <<"Crypto">> =>
       /\ \A k \in 1..Len(filteredTransactions) :
            filteredTransactions[k].pspName \in {"confirmo", "Confirmo", "CONFIRMO"}
       /\ Len(filteredTransactions) =
            Cardinality({i \in 1..Len(transactions) :
                           transactions[i].pspName \in {"confirmo", "Confirmo", "CONFIRMO"}})

\* method = ['Crypto'] over a crypto row, a card row and a row without PSP:
\* only the crypto row is left
MethodFilterWitness ==
  /\ filters.method = <<"Crypto">>
  /\ Len(transactions) = 3
  /\ \E i \in 1..3 : transactions[i].pspName = "Stripe"
  /\ \E i \in 1..3 : transactions[i].pspName = ""
  /\ Len(filteredTransactions) = 1
  /\ filteredTransactions[1].pspName = "Confirmo"

\* the approved rows of the filtered list whose instant is a date
DatedApprovedIndexes(txs) ==
  {i \in 1..Len(txs) : txs[i].status = "approved" /\ ~txs[i].processing_ts.nan}

\* equality of two JavaScript numbers that are rationals
SameNumber(x, y) == x.kind = "num" /\ y.kind = "num" /\ x.num * y.den = y.num * x.den

\* C15: with D the set of local calendar days (active timezone) on which an
\* approved transaction of the filtered list occurs, the KPI average is the
\* total approved amount divided by the number of distinct local hours with
\* approved activity, labelled 'per hour', when |D| = 1; the total divided
\* by |D|, labelled 'per day', when |D| > 1; and 0 when |D| = 0.
AverageAmountByActiveBuckets ==
  LET txs == filteredTransactions
      zone == TzName(timezone)
      dated == DatedApprovedIndexes(txs)
      days == {FormatLocalDate(txs[i].processing_ts, zone) : i \in dated}
      hours == {LocalHour(txs[i].processing_ts, zone).v : i \in dated}
      total == kpiData.totalAmount
      avg == kpiAvgAmount
  IN /\ Cardinality(days) = 1 =>
          /\ SameNumber(avg.avgAmount, JsDiv(total, Cardinality(hours)))
          /\ avg.avgAmountLabel = "per hour"
     /\ Cardinality(days) > 1 =>
          /\ SameNumber(avg.avgAmount, JsDiv(total, Cardinality(days)))
          /\ avg.avgAmountLabel = "per day"
     /\ Cardinality(days) = 0 => SameNumber(avg.avgAmount, Num(0))

\* the sums of a rollup over its buckets
RollupTransactions(rollup) == SumOver(DOMAIN rollup, [b \in DOMAIN rollup |-> rollup[b].transactions])
RollupAmount(rollup) == SumOver(DOMAIN rollup, [b \in DOMAIN rollup |-> rollup[b].amount])

\* C16: for the hourly, daily, weekly and monthly rollups the 'transactions'
\* of all buckets sum to the number of filtered rows with status 'approved'
\* (no deduplication) and the 'amount' to the sum of their amounts; the
\* hourly rollup has exactly the 24 buckets 0..23; every bucket key comes
\* from the instant in the active timezone.
TimeBucketsCountApprovedRows ==
  LET txs == filteredTransactions
      zone == TzName(timezone)
      approved == {i \in 1..Len(txs) : txs[i].status = "approved"}
      approvedAmount == SumOver(approved, [i \in approved |-> txs[i].amount])
      rollups == <<timelineData, dailyTimelineData, weeklyTimelineData, monthlyTimelineData>>
  IN /\ ~chartDataThrows
     /\ DOMAIN timelineData = 0..23
     /\ \A g \in 1..4 : /\ RollupTransactions(rollups[g]) = Cardinality(approved)
                         /\ RollupAmount(rollups[g]) = approvedAmount
     /\ \A i \in approved :
          /\ ~txs[i].processing_ts.nan =>
                timelineData[((txs[i].processing_ts.v + UtcOffset(zone)) % DAY) \div HOUR].transactions > 0
          /\ dailyTimelineData[FormatLocalDate(txs[i].processing_ts, zone)].transactions > 0
          /\ weeklyTimelineData[FormatLocalWeek(txs[i].processing_ts, zone)].transactions > 0
          /\ monthlyTimelineData[FormatLocalMonth(txs[i].processing_ts, zone)].transactions > 0

\* C17: rows with an unparseable processing_date, approved ones among them,
\* do not break the pipeline: normalization, filtering, the KPI computation
\* and every chart rollup complete without throwing and still aggregate the
\* remaining rows.
UnparseableDatesDoNotThrow ==
  /\ Len(transactions) = Len(rawData)
  /\ kpiData.approvedOverall = DedupApproved(filteredTransactions)
  /\ ~chartDataThrows

\* C18: for the empty transaction list nothing throws and every aggregate is
\* zero or empty: the KPI counts, rate, amount and average are 0; the PSP,
\* country, MID, daily, weekly and monthly rollups are empty; the 24 hourly
\* buckets and both status slices are 0; the insight engine (mounted once
\* rows are uploaded) emits no insight.
EmptyInputIsAllZero ==
  filteredTransactions = << >> =>
    /\ kpiData.approvedOverall = 0 /\ kpiData.declinedOverall = 0
    /\ kpiData.totalTransactions = 0 /\ kpiData.totalAmount = 0
    /\ SameNumber(kpiData.approvalRate, Num(0))
    /\ SameNumber(kpiAvgAmount.avgAmount, Num(0))
    /\ ~chartDataThrows
    /\ DOMAIN pspPerformance = {} /\ DOMAIN countryDistribution = {}
    /\ DOMAIN midAliasPerformance = {}
    /\ DOMAIN dailyTimelineData = {} /\ DOMAIN weeklyTimelineData = {}
    /\ DOMAIN monthlyTimelineData = {}
    /\ \A h \in 0..23 : timelineData[h].transactions = 0 /\ timelineData[h].amount = 0
    /\ statusBreakdown[1].count = 0 /\ statusBreakdown[2].count = 0
    /\ rawData # << >> =>
         /\ ApprovalRateInsights(filteredTransactions) = << >>
         /\ TopCountryInsights(filteredTransactions) = << >>

\* the upload cannot succeed: unsupported extension, over 10MB, or a failure
\* while parsing, reading or converting
FailingFile(file) ==
  \/ FileExtension(file.name) \notin {"csv", "xlsx", "xls"}
  \/ file.big
  \/ file.fault # "none"

\* C19: on every failing upload path (unsupported extension, file over
\* 10MB, parser error, an error thrown inside a CSV step followed by
\* parser.abort(), Excel read or convert error) an error message is set and
\* onDataLoaded is not called for that upload, so rawData and fileName are
\* what they were before it.
IngestionErrorsCommitNothing ==
  (task.pc = "done" /\ FailingFile(task.file)) =>
    /\ error # ""
    /\ task.calls = 0
    /\ rawData = task.prevData
    /\ fileName = task.prevName

\* C20: after a successful CSV upload of a file with N data rows, for N
\* below, at and above the batch size, the sequence passed to onDataLoaded
\* holds exactly those N rows in file order.
CsvIngestionIsCompleteAndOrdered ==
  ( /\ task.pc = "done" /\ error = ""
    /\ FileExtension(task.file.name) = "csv"
    /\ ~FailingFile(task.file) ) =>
    /\ task.calls = 1
    /\ rawData = FileRows(task.file.n)
    /\ Len(rawData) = task.file.n

\* C21: after any sequence of uploads, filter changes, timezone changes and
\* country selections, once the render of the last of them is committed, the
\* normalized transactions, the filtered list, the KPI snapshot, the chart
\* rollups and the country detail that the render shows equal what a
\* computation from scratch over the current rawData, timezone, filters and
\* selected country yields.
NoStaleAggregates ==
  ~RenderDue =>
    /\ renderedTransactions = transactions
    /\ renderedFilteredTransactions = filteredTransactions
    /\ renderedKpi = KpiSnapshot(filteredTransactions, timezone)
    /\ renderedChartData = ChartData(filteredTransactions, timezone)
    /\ renderedCountryDetail =
         CountryDetailOrNull(filteredTransactions, transactions, selectedCountryDetails, timezone)

\* rendered under GMT+6 with a start date that keeps the order of the late
\* evening only in that zone, after a render of the same rows under GMT+0
NoStaleAggregatesWitness ==
  /\ ~RenderDue
  /\ timezone = "GMT+6"
  /\ filters.dateRange.start = "2024-01-02"
  /\ selectedCountryDetails = "Germany"
  /\ Len(rawData) = 2
  /\ Len(renderedFilteredTransactions) = 2
  /\ Len(ApplyFilters(Normalize(rawData, "GMT+0"), filters, "GMT+0")) = 1
  /\ renderedKpi.data.approvedOverall = 1

\* the rank of a priority in the sort, and the rule an insight comes from
PriorityRank(priority) ==
  CASE priority = "high" -> 3 [] priority = "medium" -> 2 [] priority = "low" -> 1

RuleOf(id) ==
  CASE id \in {"low-approval-rate", "high-approval-rate"} -> 1
    [] id = "best-psp" -> 2
    [] id = "peak-hour" -> 3
    [] id = "top-country" -> 4
    [] id = "top-decline-reason" -> 5
    [] id = "revenue-trend" -> 6
    [] id = "high-value-transactions" -> 7

\* C22: the returned insight list holds the pushed insights sorted by
\* priority high, then medium, then low; two insights of equal priority
\* appear in rule-evaluation order (approval rate, best PSP, peak hour, top
\* country, decline reason, revenue trend, high value); each rule
\* contributes at most one insight, so the ids are pairwise distinct.
InsightOrdering ==
  \A zone \in BrowserZones :
    InsightsMounted =>
    LET list == Insights(filteredTransactions, zone)
        pushed == PushedInsights(filteredTransactions, zone)
    IN /\ Len(list) = Len(pushed) /\ Range(list) = Range(pushed)
       /\ \A i, j \in 1..Len(list) :
            i < j =>
              /\ PriorityRank(list[i].priority) >= PriorityRank(list[j].priority)
              /\ list[i].priority = list[j].priority => RuleOf(list[i].id) < RuleOf(list[j].id)
              /\ list[i].id # list[j].id
              /\ RuleOf(list[i].id) # RuleOf(list[j].id)

\* all seven rules fire: the two high insights, pushed first and fifth, lead
\* the list and the three medium ones of rules 2 to 4 follow in rule order
InsightOrderingWitness ==
  LET list == Insights(filteredTransactions, "UTC")
      pushed == PushedInsights(filteredTransactions, "UTC")
  IN /\ InsightsMounted
     /\ Len(list) = 7
     /\ pushed[5].id = "top-decline-reason" /\ list[2].id = "top-decline-reason"
     /\ list[1].id = "low-approval-rate"
     /\ list[3].id = "best-psp" /\ list[4].id = "peak-hour" /\ list[5].id = "top-country"
     /\ list[6].id = "revenue-trend" /\ list[6].priority = "medium"
     /\ list[7].id = "high-value-transactions"

\* C23: rule 1 emits its warning iff the overall approval rate of the
\* filtered transactions is below 70, its success note iff the rate is
\* above 85, and nothing for a rate in [70, 85] or when no transaction is
\* approved or declined; the rate is the one the KPI snapshot reports for
\* the same filtered list.
ApprovalRateRule ==
  InsightsMounted =>
  LET txs == filteredTransactions
      approved == Len(SelectSeq(txs, IsApproved))
      settled == Len(SelectSeq(txs, IsSettled))
      pushed == ApprovalRateInsights(txs)
      ids == {pushed[i].id : i \in 1..Len(pushed)}
  IN /\ settled = 0 => pushed = << >>
     /\ settled > 0 =>
          /\ "low-approval-rate" \in ids <=> 100 * approved < 70 * settled
          /\ "high-approval-rate" \in ids <=> 100 * approved > 85 * settled
          /\ SameNumber(InsightApprovalRate(txs), kpiData.approvalRate)

\* C24: the peak-hour insight is emitted iff an approved transaction exists,
\* and the hour it reports is one of 0..23 whose bucket of the dashboard's
\* hourly rollup, for the same filtered list and the selected timezone,
\* has the greatest approved amount.
PeakHourMatchesRollup ==
  \A zone \in BrowserZones :
    InsightsMounted =>
    LET txs == filteredTransactions
        hour == PeakHour(txs, zone)
    IN /\ PeakHourInsights(txs, zone) # << >> <=> ApprovedIndexes(txs) # {}
       /\ PeakHourInsights(txs, zone) # << >> =>
            /\ ~hour.nan /\ hour.v \in HourBuckets
            /\ \A h \in HourBuckets : timelineData[h].amount <= timelineData[hour.v].amount

\* C25: with at least two calendar days of approved activity, prev and last
\* the approved amounts of the two most recent ones and growth =
\* (last - prev) / prev * 100, the trend insight is emitted iff |growth| >
\* 10, with priority high iff |growth| > 25 and medium otherwise, type
\* success for growth > 0 and warning for growth < 0; it is never emitted
\* with an undefined or infinite percentage (prev = 0) nor with fewer than
\* two active days.
RevenueTrendRule ==
  \A zone \in BrowserZones :
    InsightsMounted =>
    LET txs == filteredTransactions
        days == InsightDates(txs, zone)
        pushed == RevenueTrendInsights(txs, zone)
        last == DailyRevenue(txs, zone, LastDate(days))
        prev == DailyRevenue(txs, zone, LastDate(days \ {LastDate(days)}))
        change == IF last >= prev THEN last - prev ELSE prev - last
    IN IF Cardinality(days) < 2 \/ prev = 0
       THEN pushed = << >>
       ELSE /\ pushed # << >> <=> 100 * change > 10 * prev
            /\ pushed # << >> =>
                 /\ pushed[1].priority = (IF 100 * change > 25 * prev THEN "high" ELSE "medium")
                 /\ last > prev => pushed[1].type = "success"
                 /\ last < prev => pushed[1].type = "warning"

\* C26: for every raw record sequence the normalized transactions have
\* pairwise distinct ids, the id being the raw id when the row has one and
\* one synthesized from the row index when it has none.
TransactionIdsUnique ==
  /\ \A i \in 1..Len(rawData) :
       transactions[i].id = (IF rawData[i].id # "" THEN rawData[i].id ELSE SyntheticId(i - 1))
  /\ \A i, j \in 1..Len(transactions) : i # j => transactions[i].id # transactions[j].id

\* the calendar days an inclusive range start..end covers
SpanInDays(dateRange) ==
  (DateGetTime(dateRange.end) - DateGetTime(dateRange.start)) \div DayHours + 1

\* C27: with both dates set, the displayed granularity is a function of the
\* span of the inclusive range start..end in calendar days: at most 1 day
\* (start = end) hourly, at most 30 days daily, at most 90 days weekly,
\* longer monthly; a range covering two calendar days is not hourly.
TimelineGranularity ==
  (ChartsMounted /\ filters.dateRange.start # "" /\ filters.dateRange.end # "") =>
    LET span == SpanInDays(filters.dateRange)
    IN timelineView = ( IF span <= 1 THEN "hourly"
                        ELSE IF span <= 30 THEN "daily"
                        ELSE IF span <= 90 THEN "weekly"
                        ELSE "monthly" )

\* C28: every processFile run that passed the extension check ends with
\* isProcessing = FALSE, and every run that ends without an error, CSV or
\* Excel, a file of zero data rows included, has called onDataLoaded exactly
\* once with the full row list of the file.
UploadCompletion ==
  ( /\ task.pc = "done"
    /\ FileExtension(task.file.name) \in {"csv", "xlsx", "xls"} ) =>
    /\ ~isProcessing
    /\ error = "" =>
         /\ task.calls = 1
         /\ rawData = FileRows(task.file.n)
         /\ fileName = task.file.name

\* every selected value, but the one a removal is about, stays selected
KeepsSelections(removedKey, removedValue) ==
  \A key \in FilterKeys : \A v \in Range(filters[key]) :
    (key # removedKey \/ v # removedValue) => Includes(filters'[key], v)

\* C29: no filter intent of the panel loses an earlier one, an intent whose
\* deferred update has not been rendered back into the props of the panel
\* included: an add leaves its value selected, a removal leaves it
\* unselected, a date change leaves its date set, and each of them keeps
\* every other selected value and date of the current FilterState.
NoLostFilterUpdate ==
  [][ /\ \A c \in RenderFilterChoices :
           /\ panelAddToArrayFilter(c[1], c[2]) =>
                /\ Includes(filters'[c[1]], c[2])
                /\ KeepsSelections("", "")
                /\ filters'.dateRange = filters.dateRange
           /\ panelRemoveFromArrayFilter(c[1], c[2]) =>
                /\ ~Includes(filters'[c[1]], c[2])
                /\ KeepsSelections(c[1], c[2])
                /\ filters'.dateRange = filters.dateRange
      /\ \A d \in RenderDates :
           panelSetDateRangeStart(d) =>
             /\ filters'.dateRange.start = d
             /\ filters'.dateRange.end = filters.dateRange.end
             /\ KeepsSelections("", "") ]_vars

\* the set-valued filters of the FilterState
ArrayFilterKeys == FilterKeys \cup {"type"}

\* no value is selected twice in a set-valued filter
NoDuplicateSelections(f) ==
  \A key \in ArrayFilterKeys :
    \A i, j \in 1..Len(f[key]) : f[key][i] = f[key][j] => i = j

====
